---- MODULE Spec2Model ----
(***************************************************************************)
(* Mix & Timeline Engine of story-magic-orchestrator.                      *)
(*                                                                         *)
(* The components are modelled each with a specification of its own:       *)
(*   SpecExport    workers/export.js   makePlaybackManifest                *)
(*   SpecConcat    workers/export.js   concatScenesWithCrossfade           *)
(*   SpecDuck      workers/mix.js      buildDuckCurve, duckToVolumeEnables *)
(*   SpecMix       workers/mix.js      mixScene                            *)
(*   SpecLoudnorm  workers/mix.js, lib/mix.js  loudnormTwoPass             *)
(*   SpecGraph     lib/ffmpeg-validator.js  validateFiltergraph            *)
(*   SpecRetry     lib/retry.js  withRetry, and whisperAPIAlign of         *)
(*                 workers/whisper-align.js, which calls it                *)
(*   SpecTimeline  workers/timeline-validator.js  validateTimeline,        *)
(*                                                autoFixTimeline          *)
(*   SpecMusicMasking, SpecAmbienceMasking, SpecCrossfade                  *)
(*                 validateTimeline on events that declare a duck, a gain  *)
(*                 or a fade                                               *)
(* The variables of the components that a specification does not exercise  *)
(* stay at their idle values.                                              *)
(***************************************************************************)
EXTENDS Integers, Sequences, FiniteSets, TLC

VARIABLES
    \* ---- workers/export.js: makePlaybackManifest
    scenePaths,          \* the scenes, in order: [exists, duration (ticks)]
    crossfadeDuration,   \* F, in ticks
    epc,                 \* "idle" | "loop" | "done" | "failed"
    i,                   \* loop index (0-based, as in the source)
    offset,              \* running offset, full precision (ticks)
    order,               \* manifest entries pushed so far (milliseconds)
    manifest,            \* the returned manifest, or NoManifest
    \* ---- workers/mix.js: buildDuckCurve / duckToVolumeEnables
    env,                 \* RMS samples [t, rmsDb]
    hop,                 \* hop in milliseconds
    dpc,                 \* "idle" | "env" | "curve" | "filter"
    duckCurve,           \* result of buildDuckCurve
    duckFilter,          \* result of duckToVolumeEnables
    \* ---- lib/ffmpeg-validator.js: validateFiltergraph
    fg,                  \* the graph description, a sequence of tokens
    gpc,                 \* "idle" | "start" | "validated"
    graphValidation,     \* the returned {valid, errors, warnings}
    \* ---- workers/timeline-validator.js: validateTimeline / autoFixTimeline
    timeline,            \* timeline.events, the caller's list
    passed,              \* the list as the caller first passed it
    tpc,                 \* "idle" | "start" | "validated" | "revalidated"
                         \*   | "fixed" | "refixed" | "fixed_validated"
    validation,          \* result of the first validateTimeline(timeline)
    revalidation,        \* result of the second validateTimeline(timeline)
    fixedValidation,     \* result of validateTimeline(fixedTimeline)
    fixed,               \* autoFixTimeline(timeline).events
    refixed,             \* autoFixTimeline of the fixed timeline, .events
    \* ---- workers/mix.js: mixScene
    optionsInputs,       \* options.inputs: [dialogue, music, ambience], each
                         \*   TRUE when the path is given
    mixParams,           \* the text of volume=${music_gain_db}dB and of
                         \*   volume=${ambience_gain_db}dB, as tokens
    mpc,                 \* the position in mixScene, "idle" when not called
    calls,               \* the calls issued to the external engine, in order
    filterGraph,         \* the graph description built, as tokens
    mixValidation,       \* validateFiltergraph(filterGraph)
    mixManifest,         \* the manifest object under construction
    outWav,              \* the file at outWav
    savedManifest,       \* the manifest saved by saveMixManifest
    mixResult,           \* what mixScene returned or threw
    \* ---- workers/mix.js, lib/mix.js: loudnormTwoPass
    variant,             \* the file of the loudnormTwoPass called
    target,              \* [I, TP, LRA], the targets passed
    lpc,                 \* "idle" | "pass1" | "pass2" | "returned" | "threw"
    measured,            \* what pass 1 printed: Unparseable or the values
    pass2Args,           \* the values extracted for pass 2; once pass 2 is
                         \* issued, the options of its loudnorm filter
    outFinal,            \* the file at outPath
    \* ---- workers/export.js: concatScenesWithCrossfade
    cpc,                 \* "idle" | "start" | "engine" | "done"
    outPath,             \* the file at outPath
    priorOutPath,        \* the file at outPath when the call was made
    concatResult,        \* whether the call returned or what it threw
    \* ---- lib/retry.js: withRetry; workers/whisper-align.js: whisperAPIAlign
    wrapped,             \* the function handed to withRetry
    maxRetries,          \* options.maxRetries
    attempt,             \* loop index of withRetry
    rpc,                 \* "idle" | "attempt" | "wait" | "returned" | "threw"
    lastError,           \* lastError: <<>> while undefined
    retryLog,            \* the attempts made and the waits, in order
    retryResult          \* what withRetry returned or threw

exportVars == <<scenePaths, crossfadeDuration, epc, i, offset, order, manifest>>
duckVars == <<env, hop, dpc, duckCurve, duckFilter>>
graphVars == <<fg, gpc, graphValidation>>
timelineVars ==
    <<timeline, passed, tpc, validation, revalidation, fixedValidation, fixed,
      refixed>>
mixVars ==
    <<optionsInputs, mixParams, mpc, calls, filterGraph, mixValidation, mixManifest,
      outWav, savedManifest, mixResult>>
loudnormVars == <<variant, target, lpc, measured, pass2Args, outFinal>>
concatVars == <<cpc, outPath, priorOutPath, concatResult>>
retryVars ==
    <<wrapped, maxRetries, attempt, rpc, lastError, retryLog, retryResult>>
vars ==
    <<exportVars, duckVars, graphVars, timelineVars, mixVars, loudnormVars,
      concatVars, retryVars>>

Abs(x) == IF x < 0 THEN -x ELSE x

(***************************************************************************)
(* Idle values: the state of a component no call has touched.              *)
(***************************************************************************)
NoManifest == [kind |-> "none"]
NoValidation == [kind |-> "none"]

ExportIdle ==
    /\ scenePaths = <<>>
    /\ crossfadeDuration = 0
    /\ epc = "idle"
    /\ i = 0
    /\ offset = 0
    /\ order = <<>>
    /\ manifest = NoManifest

DuckIdle ==
    /\ env = <<>>
    /\ hop = 0
    /\ dpc = "idle"
    /\ duckCurve = <<>>
    /\ duckFilter = <<>>

GraphIdle ==
    /\ fg = <<>>
    /\ gpc = "idle"
    /\ graphValidation = NoValidation

TimelineIdle ==
    /\ timeline = <<>>
    /\ passed = <<>>
    /\ tpc = "idle"
    /\ validation = NoValidation
    /\ revalidation = NoValidation
    /\ fixedValidation = NoValidation
    /\ fixed = <<>>
    /\ refixed = <<>>

NoResult == [kind |-> "none"]
Absent == "absent"

LoudnormIdle ==
    /\ variant = "workers/mix.js"
    /\ target = [I |-> 0, TP |-> 0, LRA |-> 0]
    /\ lpc = "idle"
    /\ measured = NoResult
    /\ pass2Args = NoResult
    /\ outFinal = Absent

MixIdle ==
    /\ optionsInputs = [dialogue |-> FALSE, music |-> FALSE, ambience |-> FALSE]
    /\ mixParams = [music |-> <<>>, ambience |-> <<>>]
    /\ mpc = "idle"
    /\ calls = <<>>
    /\ filterGraph = <<>>
    /\ mixValidation = NoValidation
    /\ mixManifest = NoManifest
    /\ outWav = Absent
    /\ savedManifest = NoManifest
    /\ mixResult = NoResult

ConcatIdle ==
    /\ cpc = "idle"
    /\ outPath = Absent
    /\ priorOutPath = Absent
    /\ concatResult = NoResult

RetryIdle ==
    /\ wrapped = "fn"
    /\ maxRetries = 0
    /\ attempt = 0
    /\ rpc = "idle"
    /\ lastError = <<>>
    /\ retryLog = <<>>
    /\ retryResult = NoResult

(***************************************************************************)
(* Bounds of the model.                                                    *)
(***************************************************************************)
\* Time resolution of the export model: ticks per millisecond.  Durations
\* and the crossfade are measured in ticks, so that toFixed(3) has something
\* to round.
TicksPerMs == 2
MaxScenes == 3
MaxDuration == 4
MaxCrossfade == 2
MaxEnv == 3
MaxGraphLen == 5
MaxEvents == 3
MaxAt == 1
\* The largest maxRetries handed to withRetry.
MaxRetries == 2

(***************************************************************************)
(* workers/export.js                                                       *)
(***************************************************************************)
\* parseFloat(x.toFixed(3)): x in ticks, result in whole milliseconds.
\* Number.prototype.toFixed picks the nearest multiple of 10^-3 and, of two
\* equally near ones, the larger for x >= 0; a negative x is formatted as
\* "-" followed by the result for -x.
toFixed3(x) ==
    IF x < 0
    THEN -(((2 * (-x)) + TicksPerMs) \div (2 * TicksPerMs))
    ELSE ((2 * x) + TicksPerMs) \div (2 * TicksPerMs)

\* The mutant of NextOffset: the crossfade is subtracted after the last scene
\* as well.
NextOffsetAlwaysSubtract(off, duration, idx, n, F) == off + duration - F

\* Lines 141-145: the offset after scene idx (0-based) of n scenes.
NextOffset(off, duration, idx, n, F) ==
    IF idx < n - 1 THEN off + duration - F ELSE off + duration

\* One iteration of the for loop of makePlaybackManifest (lines 123-146).
ManifestIteration ==
    /\ epc = "loop"
    /\ i < Len(scenePaths)
    /\ LET scene == scenePaths[i + 1] IN
         IF ~scene.exists
         THEN \* throw new Error(`Scene file not found: ...`)
              /\ epc' = "failed"
              /\ UNCHANGED <<i, offset, order>>
         ELSE /\ order' = Append(order, [scene_id |-> i,
                                         offset |-> toFixed3(offset),
                                         duration |-> toFixed3(scene.duration)])
              /\ offset' = NextOffset(offset, scene.duration, i,
                                      Len(scenePaths), crossfadeDuration)
              /\ i' = i + 1
              /\ epc' = "loop"
    /\ UNCHANGED <<scenePaths, crossfadeDuration, manifest>>
    /\ UNCHANGED <<duckVars, graphVars, timelineVars,
                 mixVars, loudnormVars, concatVars, retryVars>>

\* Lines 148-157: the manifest is built and returned once the loop is over.
ManifestReturn ==
    /\ epc = "loop"
    /\ i = Len(scenePaths)
    /\ manifest' = [kind |-> "manifest",
                    order |-> order,
                    total |-> toFixed3(offset),
                    crossfade_duration |-> crossfadeDuration]
    /\ epc' = "done"
    /\ UNCHANGED <<scenePaths, crossfadeDuration, i, offset, order>>
    /\ UNCHANGED <<duckVars, graphVars, timelineVars,
                 mixVars, loudnormVars, concatVars, retryVars>>

SeqsUpTo(S, n) == UNION {[1..k -> S] : k \in 0..n}

Scenes == [exists : BOOLEAN, duration : 1..MaxDuration]

(***************************************************************************)
(* workers/mix.js: the duck curve                                          *)
(***************************************************************************)
\* The thresholds and attenuations of buildDuckCurve, in dB.
LoudRmsDb == -30
NormalRmsDb == -45
LoudDuckDb == -7
NormalDuckDb == -3

\* RMS levels the envelope analysis may report, around both thresholds.
RmsLevels == {-20, -29, -30, -31, -44, -45, -46, -50}

\* Hops in milliseconds; mixScene always passes 0.1 s.
Hops == {50, 100, 200}

\* The mutant of DuckDbFor: the loud threshold is inclusive.
DuckDbForInclusive(rmsDb) ==
    IF rmsDb >= LoudRmsDb THEN LoudDuckDb
    ELSE IF rmsDb > NormalRmsDb THEN NormalDuckDb
    ELSE 0

\* Lines 67-69: the attenuation for one sample.
DuckDbFor(rmsDb) ==
    IF rmsDb > LoudRmsDb THEN LoudDuckDb
    ELSE IF rmsDb > NormalRmsDb THEN NormalDuckDb
    ELSE 0

\* buildDuckCurve: env.map(s => ({t: s.t, duckDb: ...})).
buildDuckCurve(e) ==
    [k \in 1..Len(e) |-> [t |-> e[k].t, duckDb |-> DuckDbFor(e[k].rmsDb)]]

\* x.toFixed(2) for x in milliseconds: the nearest centisecond, ties upwards
\* in magnitude.
toFixed2(x) ==
    IF x < 0 THEN -(((-x) + 5) \div 10) ELSE (x + 5) \div 10

Anull == <<[filter |-> "anull"]>>

RECURSIVE VolumeSegs(_, _, _)
\* The for loop of duckToVolumeEnables from index k (0-based) on: one
\* volume=...:enable='between(t,t0,t1)' per non-zero sample.
VolumeSegs(curve, h, k) ==
    IF k >= Len(curve) THEN <<>>
    ELSE LET rest == VolumeSegs(curve, h, k + 1) IN
         IF curve[k + 1].duckDb # 0
         THEN <<[filter |-> "volume",
                 duckDb |-> curve[k + 1].duckDb,
                 t0 |-> toFixed2(k * h),
                 t1 |-> toFixed2((k + 1) * h)]>> \o rest
         ELSE rest

\* The mutant of duckToVolumeEnables: the variant of lib/mix.js, which joins
\* the segments without the 'anull' fallback.
duckToVolumeEnablesNoFallback(curve, h) == VolumeSegs(curve, h, 0)

\* duckToVolumeEnables: the segments joined by ',', or 'anull' when there are
\* none.
duckToVolumeEnables(curve, h) ==
    LET segs == VolumeSegs(curve, h, 0) IN
    IF Len(segs) > 0 THEN segs ELSE Anull

\* analyzeRMSEnvelope: the engine reports one RMS level per hop; the sample
\* times start at 0 and advance by hop.
AnalyzeRMSEnvelope ==
    /\ dpc = "start"
    /\ \E levels \in SeqsUpTo(RmsLevels, MaxEnv) :
         env' = [k \in 1..Len(levels) |->
                    [t |-> (k - 1) * hop, rmsDb |-> levels[k]]]
    /\ dpc' = "env"
    /\ UNCHANGED <<hop, duckCurve, duckFilter>>
    /\ UNCHANGED <<exportVars, graphVars, timelineVars,
                 mixVars, loudnormVars, concatVars, retryVars>>

BuildDuckCurve ==
    /\ dpc = "env"
    /\ duckCurve' = buildDuckCurve(env)
    /\ dpc' = "curve"
    /\ UNCHANGED <<env, hop, duckFilter>>
    /\ UNCHANGED <<exportVars, graphVars, timelineVars,
                 mixVars, loudnormVars, concatVars, retryVars>>

DuckToVolumeEnables ==
    /\ dpc = "curve"
    /\ duckFilter' = duckToVolumeEnables(duckCurve, hop)
    /\ dpc' = "filter"
    /\ UNCHANGED <<env, hop, duckCurve>>
    /\ UNCHANGED <<exportVars, graphVars, timelineVars,
                 mixVars, loudnormVars, concatVars, retryVars>>

InitDuck ==
    /\ hop \in Hops
    /\ env = <<>>
    /\ dpc = "start"
    /\ duckCurve = <<>>
    /\ duckFilter = <<>>
    /\ ExportIdle
    /\ GraphIdle
    /\ TimelineIdle
    /\ MixIdle
    /\ LoudnormIdle
    /\ ConcatIdle
    /\ RetryIdle

NextDuck == AnalyzeRMSEnvelope \/ BuildDuckCurve \/ DuckToVolumeEnables

SpecDuck == InitDuck /\ [][NextDuck]_vars

NonZeroIndices ==
    SelectSeq([k \in 1..Len(duckCurve) |-> k],
              LAMBDA k : duckCurve[k].duckDb # 0)

C5_WitnessPassThrough ==
    /\ dpc = "filter"
    /\ Len(duckCurve) = 2
    /\ duckFilter = Anull

(***************************************************************************)
(* lib/ffmpeg-validator.js                                                 *)
(*                                                                         *)
(* A graph description is a sequence of tokens: the separator ";", white   *)
(* space " ", filter text "F" (a filter name with its options, which holds *)
(* no bracket) and labels, a label token x standing for the text "[x]".    *)
(***************************************************************************)
Sep == ";"
Ws == " "
FilterText == "F"
\* Labels matching /^\d+:a$/.
StreamSpecifiers == {"0:a", "1:a", "2:a"}
\* Labels with a character outside [a-zA-Z0-9_].
SpecialCharLabels == {"a.b"}
GraphTokens == {Sep, Ws, FilterText, "0:a", "a", "b", "a.b"}

\* The text of the amix filter of a mix graph, with its inputs= option.
AmixTexts == {"amix=inputs=1", "amix=inputs=2", "amix=inputs=3"}

IsLabel(tok) == tok \notin ({Sep, Ws, FilterText} \cup AmixTexts)
IsStreamSpecifier(label) == label \in StreamSpecifiers

\* fg.replace(/\s+/g, '')
Normalize(text) == SelectSeq(text, LAMBDA tok : tok # Ws)

RECURSIVE Split(_)
\* text.split(';'): every segment between separators, the empty ones too.
Split(text) ==
    IF \A k \in 1..Len(text) : text[k] # Sep
    THEN <<text>>
    ELSE LET at == CHOOSE k \in 1..Len(text) :
                        /\ text[k] = Sep
                        /\ \A j \in 1..(k - 1) : text[j] # Sep
         IN <<SubSeq(text, 1, at - 1)>> \o Split(SubSeq(text, at + 1, Len(text)))

\* normalized.split(';').filter(p => p.trim())
Parts(normalized) == SelectSeq(Split(normalized), LAMBDA part : part # <<>>)

\* part.match(/\[([^\]]+)\]/g): the labels of a text, in order.
LabelMatches(text) == SelectSeq(text, IsLabel)

\* part.match(/\[([^\]]+)\](?=[^[]*$)/): the last label of the part, as a
\* sequence of at most one label.
OutputMatch(part) ==
    LET ls == LabelMatches(part) IN
    IF ls = <<>> THEN <<>> ELSE <<ls[Len(ls)]>>

\* inputMatches.slice(0, -1): every label of the part but the last.
InputLabels(part) ==
    LET ls == LabelMatches(part) IN
    IF Len(ls) > 1 THEN SubSeq(ls, 1, Len(ls) - 1) ELSE <<>>

Range(f) == {f[k] : k \in DOMAIN f}

\* Check 1 (lines 92-100): the brackets opened and closed.  Every label
\* token carries one of each.
BracketErrors(normalized) ==
    LET openBrackets == Len(LabelMatches(normalized))
        closeBrackets == Len(LabelMatches(normalized))
    IN IF openBrackets # closeBrackets
       THEN <<<<"unbalanced", openBrackets, closeBrackets>>>>
       ELSE <<>>

RECURSIVE DuplicateErrors(_, _, _)
\* Check 3 (lines 106-119) from part k on, outputLabels seen so far.
DuplicateErrors(parts, k, outputLabels) ==
    IF k > Len(parts) THEN <<>>
    ELSE LET out == OutputMatch(parts[k]) IN
         IF out = <<>>
         THEN DuplicateErrors(parts, k + 1, outputLabels)
         ELSE (IF out[1] \in outputLabels
               THEN <<<<"duplicate_output", out[1]>>>>
               ELSE <<>>)
              \o DuplicateErrors(parts, k + 1, outputLabels \cup {out[1]})

\* Lines 122-130: the output label of every part.
DefinedLabels(parts) ==
    UNION {Range(OutputMatch(parts[k])) : k \in 1..Len(parts)}

RECURSIVE UndefinedInPart(_, _, _)
\* Lines 137-149: the inputs of one part from input k on.
UndefinedInPart(inputs, k, definedLabels) ==
    IF k > Len(inputs) THEN <<>>
    ELSE (IF IsStreamSpecifier(inputs[k]) \/ inputs[k] \in definedLabels
          THEN <<>>
          ELSE <<<<"undefined_input", inputs[k]>>>>)
         \o UndefinedInPart(inputs, k + 1, definedLabels)

\* The mutant of PartInputsToCheck: the loop stops one input early
\* (i < inputMatches.length - 2).
PartInputsToCheckOffByOne(part) ==
    LET ins == InputLabels(part) IN
    IF Len(ins) > 1 THEN SubSeq(ins, 1, Len(ins) - 1) ELSE <<>>

\* Lines 134-137: the labels of a part that are checked as inputs.
PartInputsToCheck(part) == InputLabels(part)

RECURSIVE UndefinedErrors(_, _, _)
\* Check 4 (lines 132-151) from part k on.
UndefinedErrors(parts, k, definedLabels) ==
    IF k > Len(parts) THEN <<>>
    ELSE UndefinedInPart(PartInputsToCheck(parts[k]), 1, definedLabels)
         \o UndefinedErrors(parts, k + 1, definedLabels)

\* Check 5 (lines 153-161): a warning per label with special characters.
SpecialCharWarnings(labelNames) ==
    LET bad == SelectSeq(labelNames,
                         LAMBDA l : l \in SpecialCharLabels
                                    /\ ~IsStreamSpecifier(l))
    IN [k \in 1..Len(bad) |-> <<"special_chars", bad[k]>>]

\* Check 6 (lines 163-166), on the parts that are left after the filter.
EmptyChainWarnings(parts) ==
    IF \E k \in 1..Len(parts) : parts[k] = <<>>
    THEN <<<<"empty_chain">>>>
    ELSE <<>>

\* A Map from output label to inputs: the keys in first-insertion order
\* and the value last set for each.
EmptyMap == [keys |-> <<>>, get |-> <<>>]

MapSet(m, key, value) ==
    [keys |-> IF key \in Range(m.keys) THEN m.keys ELSE Append(m.keys, key),
     get |-> [x \in (DOMAIN m.get) \cup {key} |->
                 IF x = key THEN value ELSE m.get[x]]]

\* graph.get(node) || []
Neighbors(m, node) == IF node \in DOMAIN m.get THEN m.get[node] ELSE <<>>

RECURSIVE BuildGraph(_, _, _)
\* Lines 169-180 from part k on.
BuildGraph(parts, k, m) ==
    IF k > Len(parts) THEN m
    ELSE LET out == OutputMatch(parts[k])
             ls == LabelMatches(parts[k])
         IN IF out # <<>> /\ Len(ls) > 1
            THEN BuildGraph(parts, k + 1, MapSet(m, out[1], InputLabels(parts[k])))
            ELSE BuildGraph(parts, k + 1, m)

RECURSIVE hasCycle(_, _, _)
RECURSIVE VisitNeighbors(_, _, _, _)
\* hasCycle (lines 186-198); st holds the sets visiting and visited, which
\* the calls share.
hasCycle(node, m, st) ==
    IF node \in st.visiting THEN [found |-> TRUE, st |-> st]
    ELSE IF node \in st.visited THEN [found |-> FALSE, st |-> st]
    ELSE LET r == VisitNeighbors(Neighbors(m, node), 1, m,
                                 [st EXCEPT !.visiting = @ \cup {node}])
         IN IF r.found THEN r
            ELSE [found |-> FALSE,
                  st |-> [visiting |-> r.st.visiting \ {node},
                          visited |-> r.st.visited \cup {node}]]

\* The loop over graph.get(node) of hasCycle, from neighbour k on.
VisitNeighbors(ns, k, m, st) ==
    IF k > Len(ns) THEN [found |-> FALSE, st |-> st]
    ELSE LET r == hasCycle(ns[k], m, st) IN
         IF r.found THEN r ELSE VisitNeighbors(ns, k + 1, m, r.st)

RECURSIVE CycleErrors(_, _, _)
\* Lines 200-205 from key k on: one error for the first key found on a
\* cycle, then break.
CycleErrors(m, k, st) ==
    IF k > Len(m.keys) THEN <<>>
    ELSE LET r == hasCycle(m.keys[k], m, st) IN
         IF r.found THEN <<<<"cycle", m.keys[k]>>>>
         ELSE CycleErrors(m, k + 1, r.st)

validateFiltergraph(text) ==
    LET normalized == Normalize(text)
        labelNames == LabelMatches(normalized)
        parts == Parts(normalized)
        errors == BracketErrors(normalized)
                  \o DuplicateErrors(parts, 1, {})
                  \o UndefinedErrors(parts, 1, DefinedLabels(parts))
                  \o CycleErrors(BuildGraph(parts, 1, EmptyMap), 1,
                                 [visiting |-> {}, visited |-> {}])
        warnings == SpecialCharWarnings(labelNames)
                    \o EmptyChainWarnings(parts)
    IN [kind |-> "validation",
        valid |-> Len(errors) = 0,
        errors |-> errors,
        warnings |-> warnings]

ValidateFiltergraph ==
    /\ gpc = "start"
    /\ graphValidation' = validateFiltergraph(fg)
    /\ gpc' = "validated"
    /\ UNCHANGED fg
    /\ UNCHANGED <<exportVars, duckVars, timelineVars,
                 mixVars, loudnormVars, concatVars, retryVars>>

InitGraph ==
    /\ fg \in SeqsUpTo(GraphTokens, MaxGraphLen)
    /\ gpc = "start"
    /\ graphValidation = NoValidation
    /\ ExportIdle
    /\ DuckIdle
    /\ TimelineIdle
    /\ MixIdle
    /\ LoudnormIdle
    /\ ConcatIdle
    /\ RetryIdle

NextGraph == ValidateFiltergraph

SpecGraph == InitGraph /\ [][NextGraph]_vars

InitExport ==
    /\ scenePaths \in SeqsUpTo(Scenes, MaxScenes)
    /\ crossfadeDuration \in 0..MaxCrossfade
    /\ epc = "loop"
    /\ i = 0
    /\ offset = 0
    /\ order = <<>>
    /\ manifest = NoManifest
    /\ DuckIdle
    /\ GraphIdle
    /\ TimelineIdle
    /\ MixIdle
    /\ LoudnormIdle
    /\ ConcatIdle
    /\ RetryIdle

NextExport == ManifestIteration \/ ManifestReturn

SpecExport == InitExport /\ [][NextExport]_vars

(***************************************************************************)
(* workers/timeline-validator.js                                           *)
(*                                                                         *)
(* An event is [type, cue_id, line_id, at, fade, duck_db, gain_db].  A     *)
(* field the event does not carry is Undefined (cue_id, line_id) or 0      *)
(* (fade, duck_db, gain_db): the source reads the three numbers only       *)
(* through `x || default` and `!x || ...`, which treat 0 and undefined     *)
(* alike.                                                                  *)
(***************************************************************************)
Undefined == "undefined"

\* A range's end: a number of seconds, or Infinity.
Infinity == [inf |-> TRUE, v |-> 0]
Finite(n) == [inf |-> FALSE, v |-> n]
\* n < e
Less(n, e) == e.inf \/ n < e.v
\* e - w
Minus(e, w) == IF e.inf THEN e ELSE Finite(e.v - w)
\* e > n
Greater(e, n) == e.inf \/ e.v > n

\* Line 28: the fade window of a track whose music_out declares none.
DefaultFadeWindow == 2
\* Line 95: the duck below which dialogue counts as masked by music.
MinDuckDb == 3
\* Line 113: the gain above which dialogue counts as masked by ambience.
MaxAmbienceGainDb == -15

RECURSIVE InsertByAt(_, _)
\* e inserted into the sorted list after every element that is not later.
InsertByAt(sorted, e) ==
    IF sorted = <<>> THEN <<e>>
    ELSE IF e.at < sorted[1].at THEN <<e>> \o sorted
    ELSE <<sorted[1]>> \o InsertByAt(Tail(sorted), e)

RECURSIVE InsertByAtBeforeTies(_, _)
\* As InsertByAt, but e goes before the elements of the same at.
InsertByAtBeforeTies(sorted, e) ==
    IF sorted = <<>> THEN <<e>>
    ELSE IF e.at <= sorted[1].at THEN <<e>> \o sorted
    ELSE <<sorted[1]>> \o InsertByAtBeforeTies(Tail(sorted), e)

RECURSIVE SortByAtUnstable(_)
\* The mutant of SortByAt: a sort that reverses the order of ties.
SortByAtUnstable(arr) ==
    IF arr = <<>> THEN <<>>
    ELSE InsertByAtBeforeTies(SortByAtUnstable(SubSeq(arr, 1, Len(arr) - 1)),
                              arr[Len(arr)])

RECURSIVE SortByAt(_)
\* arr.sort((a, b) => a.at - b.at): ascending at, stable.
SortByAt(arr) ==
    IF arr = <<>> THEN <<>>
    ELSE InsertByAt(SortByAt(SubSeq(arr, 1, Len(arr) - 1)), arr[Len(arr)])

\* The mutant of SliceSort: events.sort(...) without the slice() sorts the
\* caller's list in place.
SortInPlace(arr) == [result |-> SortByAt(arr), array |-> SortByAt(arr)]

\* arr.slice().sort(...): the sorted copy, and arr as the call leaves it.
SliceSort(arr) == [result |-> SortByAt(arr), array |-> arr]

\* arr.find(e => e.type === type && e.cue_id === cueId), as a sequence of at
\* most one element.
Find(arr, type, cueId) ==
    LET hits == SelectSeq(arr, LAMBDA e : e.type = type /\ e.cue_id = cueId) IN
    IF hits = <<>> THEN <<>> ELSE <<hits[1]>>

RECURSIVE Concat(_)
\* The concatenation of a sequence of sequences.
Concat(ss) == IF ss = <<>> THEN <<>> ELSE ss[1] \o Concat(Tail(ss))

\* The mutant of StillActive: a track without an end is not compared.
StillActiveFiniteOnly(at, range) == ~range.end.inf /\ at < range.end.v

\* Lines 25 and 54: event.at < range.end
StillActive(at, range) == Less(at, range.end)

\* Lines 27-28: the fade window of the active track cueId.
FadeWindow(musicEvents, cueId) ==
    LET outEvent == Find(musicEvents, "music_out", cueId)
    IN IF outEvent # <<>>
       THEN (IF outEvent[1].fade # 0 THEN outEvent[1].fade ELSE DefaultFadeWindow)
       ELSE DefaultFadeWindow

\* Lines 24-37: the overlap errors of one music_in against the active tracks.
MusicOverlapErrors(event, active, musicEvents) ==
    LET hit(cueId) ==
            /\ StillActive(event.at, active.get[cueId])
            /\ Less(event.at, Minus(active.get[cueId].end,
                                    FadeWindow(musicEvents, cueId)))
        hits == SelectSeq(active.keys, hit)
    IN [k \in 1..Len(hits) |->
           [kind |-> "music_overlap", cue_id |-> event.cue_id, at |-> event.at,
            active |-> hits[k], until |-> active.get[hits[k]].end]]

\* Lines 53-60: the overlap warnings of one ambience_in.
AmbienceOverlapWarnings(event, active) ==
    LET hit(cueId) == StillActive(event.at, active.get[cueId])
        hits == SelectSeq(active.keys, hit)
    IN [k \in 1..Len(hits) |->
           [kind |-> "ambience_overlap", cue_id |-> event.cue_id,
            at |-> event.at, active |-> hits[k]]]

\* Lines 39-45 and 62-68: the active tracks after the event.
TrackUpdate(event, active, in, out) ==
    IF event.type = in
    THEN MapSet(active, event.cue_id, [start |-> event.at, end |-> Infinity])
    ELSE IF event.type = out /\ event.cue_id \in DOMAIN active.get
    THEN MapSet(active, event.cue_id,
                [active.get[event.cue_id] EXCEPT !.end = Finite(event.at)])
    ELSE active

RECURSIVE MusicLoop(_, _, _)
\* Check 1 (lines 21-46) from event k of the sorted music events on.
MusicLoop(musicEvents, k, active) ==
    IF k > Len(musicEvents) THEN <<>>
    ELSE LET event == musicEvents[k] IN
         (IF event.type = "music_in"
          THEN MusicOverlapErrors(event, active, musicEvents)
          ELSE <<>>)
         \o MusicLoop(musicEvents, k + 1,
                      TrackUpdate(event, active, "music_in", "music_out"))

RECURSIVE AmbienceLoop(_, _, _)
\* Check 2 (lines 51-69) from event k of the sorted ambience events on.
AmbienceLoop(ambienceEvents, k, active) ==
    IF k > Len(ambienceEvents) THEN <<>>
    ELSE LET event == ambienceEvents[k] IN
         (IF event.type = "ambience_in"
          THEN AmbienceOverlapWarnings(event, active)
          ELSE <<>>)
         \o AmbienceLoop(ambienceEvents, k + 1,
                         TrackUpdate(event, active, "ambience_in", "ambience_out"))

RECURSIVE DialogueLoop(_, _, _)
\* Lines 74-83 from event k of the sorted dialogue events on: the lines.
DialogueLoop(dialogueEvents, k, activeDialogue) ==
    IF k > Len(dialogueEvents) THEN activeDialogue
    ELSE LET event == dialogueEvents[k] IN
         IF event.type = "dialogue_in"
         THEN DialogueLoop(dialogueEvents, k + 1,
                  Append(activeDialogue,
                         [line_id |-> event.line_id, start |-> event.at,
                          end |-> Infinity]))
         ELSE LET first == {n \in 1..Len(activeDialogue) :
                               /\ activeDialogue[n].line_id = event.line_id
                               /\ \A j \in 1..(n - 1) :
                                     activeDialogue[j].line_id # event.line_id}
              IN DialogueLoop(dialogueEvents, k + 1,
                     [n \in 1..Len(activeDialogue) |->
                         IF n \in first
                         THEN [activeDialogue[n] EXCEPT !.end = Finite(event.at)]
                         ELSE activeDialogue[n]])

\* Line 95: !event.duck_db || event.duck_db < 3
InsufficientDuck(event) == event.duck_db = 0 \/ event.duck_db < MinDuckDb
\* Line 113: !event.gain_db || event.gain_db > -15
ExcessiveGain(event) == event.gain_db = 0 \/ event.gain_db > MaxAmbienceGainDb

\* Lines 88-103 and 106-121 for one line and one class: a warning per *_in
\* of the class that sounds during the line without enough margin.  The
\* message names the line, its start and the event's current duck or gain
\* (`event.duck_db || 0`, `event.gain_db || 0`).
MaskingWarnings(line, classEvents, in, out, kind) ==
    LET hit(event) ==
            /\ event.type = in
            /\ Less(event.at, line.end)
            /\ LET o == Find(classEvents, out, event.cue_id)
                   classEnd == IF o # <<>> THEN Finite(o[1].at) ELSE Infinity
               IN Greater(classEnd, line.start)
            /\ IF kind = "music_masking"
               THEN InsufficientDuck(event)
               ELSE ExcessiveGain(event)
        hits == SelectSeq(classEvents, hit)
    IN [k \in 1..Len(hits) |->
           [kind |-> kind, line_id |-> line.line_id, at |-> line.start,
            current |-> IF kind = "music_masking"
                        THEN hits[k].duck_db
                        ELSE hits[k].gain_db]]

\* Lines 86-122: the masking warnings, line by line, music before ambience.
AllMaskingWarnings(activeDialogue, musicEvents, ambienceEvents) ==
    Concat([n \in 1..Len(activeDialogue) |->
               MaskingWarnings(activeDialogue[n], musicEvents,
                               "music_in", "music_out", "music_masking")
               \o MaskingWarnings(activeDialogue[n], ambienceEvents,
                                  "ambience_in", "ambience_out",
                                  "ambience_masking")])

\* Check 4 (lines 125-130): regressions of at in the sorted copy.
OrderErrors(allEvents) ==
    LET bad == SelectSeq([k \in 1..Len(allEvents) |-> k],
                         LAMBDA k : k > 1 /\ allEvents[k].at < allEvents[k - 1].at)
    IN [n \in 1..Len(bad) |->
           [kind |-> "out_of_order", at |-> allEvents[bad[n]].at,
            before |-> allEvents[bad[n] - 1].at]]

RECURSIVE Distinct(_, _)
\* new Set(arr): the values of arr in order of first appearance.
Distinct(arr, seen) ==
    IF arr = <<>> THEN <<>>
    ELSE IF arr[1] \in seen THEN Distinct(Tail(arr), seen)
    ELSE <<arr[1]>> \o Distinct(Tail(arr), seen \cup {arr[1]})

CueIds(classEvents, type) ==
    LET es == SelectSeq(classEvents, LAMBDA e : e.type = type) IN
    Distinct([k \in 1..Len(es) |-> es[k].cue_id], {})

\* Lines 133-140 and 142-149 for one class: an error per cue id with an out
\* and no in among ins.
OrphanOuts(outs, ins, kind) ==
    LET orphans == SelectSeq(outs, LAMBDA c : c \notin Range(ins)) IN
    [k \in 1..Len(orphans) |-> [kind |-> kind, cue_id |-> orphans[k]]]

\* The mutant of OrphanErrors: the ins of both classes are pooled.
OrphanErrorsPooled(musicEvents, ambienceEvents) ==
    LET ins == CueIds(musicEvents, "music_in") \o CueIds(ambienceEvents, "ambience_in")
    IN OrphanOuts(CueIds(musicEvents, "music_out"), ins, "orphan_music_out")
       \o OrphanOuts(CueIds(ambienceEvents, "ambience_out"), ins,
                     "orphan_ambience_out")

\* Check 5 (lines 132-149).
OrphanErrors(musicEvents, ambienceEvents) ==
    OrphanOuts(CueIds(musicEvents, "music_out"),
               CueIds(musicEvents, "music_in"), "orphan_music_out")
    \o OrphanOuts(CueIds(ambienceEvents, "ambience_out"),
                  CueIds(ambienceEvents, "ambience_in"), "orphan_ambience_out")

\* validateTimeline: the result, and the caller's list as the call leaves it.
\* The three filtered lists are new arrays, each sorted in place by the loop
\* that walks it first and read in that order afterwards.
validateTimeline(events) ==
    LET musicEvents ==
            SortByAt(SelectSeq(events,
                LAMBDA e : e.type \in {"music_in", "music_out"}))
        ambienceEvents ==
            SortByAt(SelectSeq(events,
                LAMBDA e : e.type \in {"ambience_in", "ambience_out"}))
        dialogueEvents ==
            SortByAt(SelectSeq(events,
                LAMBDA e : e.type \in {"dialogue_in", "dialogue_out"}))
        activeDialogue == DialogueLoop(dialogueEvents, 1, <<>>)
        all == SliceSort(events)
        errors == MusicLoop(musicEvents, 1, EmptyMap)
                  \o OrderErrors(all.result)
                  \o OrphanErrors(musicEvents, ambienceEvents)
        warnings == AmbienceLoop(ambienceEvents, 1, EmptyMap)
                    \o AllMaskingWarnings(activeDialogue, musicEvents,
                                          ambienceEvents)
    IN [result |-> [kind |-> "validation",
                    valid |-> Len(errors) = 0,
                    errors |-> errors,
                    warnings |-> warnings],
        events |-> all.array]

EndsWith(type, suffix) ==
    IF suffix = "_in"
    THEN type \in {"music_in", "ambience_in", "dialogue_in"}
    ELSE type \in {"music_out", "ambience_out", "dialogue_out"}

\* The mutant of Opened: every *_in of the list counts, wherever it stands.
OpenedAnywhere(sorted, k) ==
    {sorted[j].cue_id : j \in {n \in 1..Len(sorted) : EndsWith(sorted[n].type, "_in")}}

\* Lines 169-173: the keys of insMap when event k of sorted is reached.
Opened(sorted, k) ==
    {sorted[j].cue_id : j \in {n \in 1..(k - 1) : EndsWith(sorted[n].type, "_in")}}

\* Lines 170-183: whether event k of sorted is pushed to fixed.
Retained(sorted, k) ==
    IF EndsWith(sorted[k].type, "_in") THEN TRUE
    ELSE IF EndsWith(sorted[k].type, "_out")
    THEN sorted[k].cue_id \in Opened(sorted, k)
    ELSE TRUE

\* autoFixTimeline: the events of the returned timeline, and the caller's
\* list as the call leaves it.
autoFixTimeline(events) ==
    LET s == SliceSort(events)
        kept == SelectSeq([k \in 1..Len(s.result) |-> k],
                          LAMBDA k : Retained(s.result, k))
    IN [events |-> [n \in 1..Len(kept) |-> s.result[kept[n]]],
        input |-> s.array]

\* The events of the timelines under validation.
CueEvents ==
    [type : {"music_in", "music_out", "ambience_in", "ambience_out"},
     cue_id : {"A", "B"}, line_id : {Undefined}, at : 0..MaxAt,
     fade : {0}, duck_db : {0}, gain_db : {0}]
DialogueEvents ==
    [type : {"dialogue_in", "dialogue_out"},
     cue_id : {Undefined}, line_id : {"L1"}, at : 0..MaxAt,
     fade : {0}, duck_db : {0}, gain_db : {0}]
\* An event of a type the validator does not know.
OtherEvents ==
    [type : {"sfx"},
     cue_id : {"A"}, line_id : {Undefined}, at : 0..MaxAt,
     fade : {0}, duck_db : {0}, gain_db : {0}]
TimelineEvents == CueEvents \cup DialogueEvents \cup OtherEvents

\* const validation = validateTimeline(timeline)
ValidateTimeline ==
    /\ tpc = "start"
    /\ LET r == validateTimeline(timeline) IN
         /\ validation' = r.result
         /\ timeline' = r.events
    /\ tpc' = "validated"
    /\ UNCHANGED <<passed, revalidation, fixedValidation, fixed, refixed>>
    /\ UNCHANGED <<exportVars, duckVars, graphVars,
                 mixVars, loudnormVars, concatVars, retryVars>>

\* The same timeline validated once more.
RevalidateTimeline ==
    /\ tpc = "validated"
    /\ LET r == validateTimeline(timeline) IN
         /\ revalidation' = r.result
         /\ timeline' = r.events
    /\ tpc' = "revalidated"
    /\ UNCHANGED <<passed, validation, fixedValidation, fixed, refixed>>
    /\ UNCHANGED <<exportVars, duckVars, graphVars,
                 mixVars, loudnormVars, concatVars, retryVars>>

\* const fixedTimeline = autoFixTimeline(timeline)
AutoFixTimeline ==
    /\ tpc = "revalidated"
    /\ LET r == autoFixTimeline(timeline) IN
         /\ fixed' = r.events
         /\ timeline' = r.input
    /\ tpc' = "fixed"
    /\ UNCHANGED <<passed, validation, revalidation, fixedValidation, refixed>>
    /\ UNCHANGED <<exportVars, duckVars, graphVars,
                 mixVars, loudnormVars, concatVars, retryVars>>

\* autoFixTimeline(fixedTimeline)
AutoFixAgain ==
    /\ tpc = "fixed"
    /\ LET r == autoFixTimeline(fixed) IN
         /\ refixed' = r.events
         /\ fixed' = r.input
    /\ tpc' = "refixed"
    /\ UNCHANGED <<timeline, passed, validation, revalidation, fixedValidation>>
    /\ UNCHANGED <<exportVars, duckVars, graphVars,
                 mixVars, loudnormVars, concatVars, retryVars>>

InitTimeline ==
    /\ \E len \in 0..MaxEvents : timeline \in [1..len -> TimelineEvents]
    /\ passed = timeline
    /\ tpc = "start"
    /\ validation = NoValidation
    /\ revalidation = NoValidation
    /\ fixedValidation = NoValidation
    /\ fixed = <<>>
    /\ refixed = <<>>
    /\ ExportIdle
    /\ DuckIdle
    /\ GraphIdle
    /\ MixIdle
    /\ LoudnormIdle
    /\ ConcatIdle
    /\ RetryIdle

\* validateTimeline(fixedTimeline)
ValidateFixedTimeline ==
    /\ tpc = "fixed"
    /\ LET r == validateTimeline(fixed) IN
         /\ fixedValidation' = r.result
         /\ fixed' = r.events
    /\ tpc' = "fixed_validated"
    /\ UNCHANGED <<timeline, passed, validation, revalidation, refixed>>
    /\ UNCHANGED <<exportVars, duckVars, graphVars,
                 mixVars, loudnormVars, concatVars, retryVars>>

NextTimeline ==
    \/ ValidateTimeline
    \/ RevalidateTimeline
    \/ AutoFixTimeline
    \/ AutoFixAgain
    \/ ValidateFixedTimeline

SpecTimeline == InitTimeline /\ [][NextTimeline]_vars

\* The duck_db and gain_db of the *_in events of the masking timelines, 0
\* for an event that declares none.
DuckDbValues == {0, 3, 5, 6, -7}
GainDbValues == {0, -14, -15, -17, -18}
\* The fade of the music_out events of the crossfade timelines, 0 for an
\* event that declares none.
FadeValues == {0, 1}

\* One dialogue line, and one music cue with a declared duck.
MusicMaskingEvents ==
    DialogueEvents
    \cup [type : {"music_in"}, cue_id : {"A"}, line_id : {Undefined},
          at : 0..MaxAt, fade : {0}, duck_db : DuckDbValues, gain_db : {0}]
    \cup [type : {"music_out"}, cue_id : {"A"}, line_id : {Undefined},
          at : 0..MaxAt, fade : {0}, duck_db : {0}, gain_db : {0}]

\* One dialogue line, and one ambience cue with a declared gain.
AmbienceMaskingEvents ==
    DialogueEvents
    \cup [type : {"ambience_in"}, cue_id : {"A"}, line_id : {Undefined},
          at : 0..MaxAt, fade : {0}, duck_db : {0}, gain_db : GainDbValues]
    \cup [type : {"ambience_out"}, cue_id : {"A"}, line_id : {Undefined},
          at : 0..MaxAt, fade : {0}, duck_db : {0}, gain_db : {0}]

\* Two music cues whose music_out may declare a fade.
CrossfadeEvents ==
    [type : {"music_in"}, cue_id : {"A", "B"}, line_id : {Undefined},
     at : 0..MaxAt, fade : {0}, duck_db : {0}, gain_db : {0}]
    \cup [type : {"music_out"}, cue_id : {"A", "B"}, line_id : {Undefined},
          at : 0..MaxAt, fade : FadeValues, duck_db : {0}, gain_db : {0}]

\* validateTimeline is about to be called on a list of events of E.
InitEvents(E) ==
    /\ \E len \in 0..MaxEvents : timeline \in [1..len -> E]
    /\ passed = timeline
    /\ tpc = "start"
    /\ validation = NoValidation
    /\ revalidation = NoValidation
    /\ fixedValidation = NoValidation
    /\ fixed = <<>>
    /\ refixed = <<>>
    /\ ExportIdle
    /\ DuckIdle
    /\ GraphIdle
    /\ MixIdle
    /\ LoudnormIdle
    /\ ConcatIdle
    /\ RetryIdle

NextValidate == ValidateTimeline

InitMusicMasking == InitEvents(MusicMaskingEvents)
SpecMusicMasking == InitMusicMasking /\ [][NextValidate]_vars

InitAmbienceMasking == InitEvents(AmbienceMaskingEvents)
SpecAmbienceMasking == InitAmbienceMasking /\ [][NextValidate]_vars

InitCrossfade == InitEvents(CrossfadeEvents)
SpecCrossfade == InitCrossfade /\ [][NextValidate]_vars

(***************************************************************************)
(* workers/mix.js, lib/mix.js: loudnormTwoPass                             *)
(*                                                                         *)
(* The external engine is the environment: a call that rejects on failure  *)
(* either succeeds or fails; what it prints is drawn from small sets.  A   *)
(* text that may be missing is a sequence: <<>> when undefined or null,    *)
(* <<n>> for the number n.                                                 *)
(***************************************************************************)
\* Lines 179-180 of workers/mix.js: the default targets.
TargetLufs == -16
TruePeakDb == -1
\* Line 94: the LRA of a call that passes none, as mixScene does.
DefaultLra == 11

\* Pass 1 printed nothing the regular expressions match.
Unparseable == [kind |-> "unparseable"]

\* The JSON of pass 1.  The input is already at target when input_i is the
\* target I and target_offset is 0.
Pass1Json ==
    [kind : {"json"}, input_i : {-23, -16}, input_tp : {-3, -1},
     input_lra : {5}, input_thresh : {-26}, target_offset : {0, 7}]

Pass1Prints == {Unparseable} \cup Pass1Json

EngineOutcomes == {"ok", "failed"}

\* rx(k) of workers/mix.js (line 106): undefined when nothing matches;
\* extractValue(key) of lib/mix.js (lines 98-101): then '0'.
ExtractValue(file, printed, key) ==
    IF printed = Unparseable
    THEN (IF file = "lib/mix.js" THEN <<0>> ELSE <<>>)
    ELSE <<printed[key]>>

\* Pass 1 (workers/mix.js lines 98-114): measure.  reject: false, so the call
\* never throws; the five values are extracted from whatever was printed.
LoudnormPass1 ==
    /\ lpc = "pass1"
    /\ calls' = Append(calls, "loudnorm_pass1")
    /\ \E printed \in Pass1Prints :
         /\ measured' = printed
         /\ pass2Args' =
               [measured_I |-> ExtractValue(variant, printed, "input_i"),
                measured_TP |-> ExtractValue(variant, printed, "input_tp"),
                measured_LRA |-> ExtractValue(variant, printed, "input_lra"),
                measured_thresh |-> ExtractValue(variant, printed, "input_thresh"),
                offset |-> ExtractValue(variant, printed, "target_offset")]
    /\ lpc' = "pass2"
    /\ UNCHANGED <<variant, target, outFinal>>
    /\ UNCHANGED <<optionsInputs, mixParams, mpc, filterGraph, mixValidation,
                   mixManifest, outWav, savedManifest, mixResult>>
    /\ UNCHANGED <<exportVars, duckVars, graphVars, timelineVars, concatVars,
                   retryVars>>

\* Pass 2 (workers/mix.js lines 116-127): apply, with the targets and the
\* five extracted values in the filter text.  The call rejects on failure;
\* the function returns nothing.
LoudnormPass2 ==
    /\ lpc = "pass2"
    /\ calls' = Append(calls, "loudnorm_pass2")
    /\ pass2Args' = [I |-> target.I, TP |-> target.TP, LRA |-> target.LRA,
                     measured_I |-> pass2Args.measured_I,
                     measured_TP |-> pass2Args.measured_TP,
                     measured_LRA |-> pass2Args.measured_LRA,
                     measured_thresh |-> pass2Args.measured_thresh,
                     offset |-> pass2Args.offset]
    /\ \E outcome \in EngineOutcomes :
         IF outcome = "ok"
         THEN /\ outFinal' = "normalized"
              /\ lpc' = "returned"
         ELSE /\ outFinal' \in {outFinal, "partial"}
              /\ lpc' = "threw"
    /\ UNCHANGED <<variant, target, measured>>
    /\ UNCHANGED <<optionsInputs, mixParams, mpc, filterGraph, mixValidation,
                   mixManifest, outWav, savedManifest, mixResult>>
    /\ UNCHANGED <<exportVars, duckVars, graphVars, timelineVars, concatVars,
                   retryVars>>

\* loudnormTwoPass(inputPath, outPath, I, TP) called on its own, from either
\* file.
InitLoudnorm ==
    /\ variant \in {"workers/mix.js", "lib/mix.js"}
    /\ target \in [I : {-23, TargetLufs, -14}, TP : {-2, TruePeakDb},
                   LRA : {7, DefaultLra}]
    /\ lpc = "pass1"
    /\ measured = NoResult
    /\ pass2Args = NoResult
    /\ outFinal = Absent
    /\ MixIdle
    /\ ExportIdle
    /\ DuckIdle
    /\ GraphIdle
    /\ TimelineIdle
    /\ ConcatIdle
    /\ RetryIdle

NextLoudnorm == LoudnormPass1 \/ LoudnormPass2

SpecLoudnorm == InitLoudnorm /\ [][NextLoudnorm]_vars

(***************************************************************************)
(* workers/mix.js: mixScene                                                *)
(***************************************************************************)
\* null
Null == <<>>

\* Line 211: the hop passed to analyzeRMSEnvelope, in milliseconds.
MixHop == 100

\* The RMS levels the engine reports for the dialogue of a mix.
MixRmsLevels == {-20, -50}

\* The text of `volume=${gain}dB` (lines 223, 231): filter text for a gain
\* that is a number, and the tokens of a gain handed over as a text that
\* holds a label, such as '0[x]'.
GainTexts == {<<FilterText>>, <<FilterText, "x", FilterText>>}

\* What the verification pass prints (lines 276-285).
VerifyPrints ==
    {Unparseable} \cup [kind : {"json"}, output_i : {-17, -16}, output_tp : {-2, -1}]

\* Lines 186-196: the manifest before any filter is recorded.
NewManifest(in) ==
    [kind |-> "manifest", inputs |-> in, filters |-> <<>>,
     lufs_i |-> Null, true_peak_db |-> Null]

\* The text of the duck filter (mix.js lines 83-86): one filter text per
\* segment or the one of 'anull'; duckToVolumeEnables writes no bracket and
\* no semicolon.
DuckFilterText(segs) == [k \in 1..Len(segs) |-> FilterText]

\* The mutant of AmixText: inputs= is written for all three roles.
AmixTextAllRoles(n) == "amix=inputs=3"

\* Line 241: amix=inputs=${mixInputs.length}:duration=longest:...
AmixText(n) ==
    CASE n = 1 -> "amix=inputs=1"
      [] n = 2 -> "amix=inputs=2"
      [] n = 3 -> "amix=inputs=3"

\* Lines 218-241: the graph description.
BuildFilterGraph(in, params, segs) ==
    LET music ==
            IF in.music
            THEN <<"1:a">> \o params.music \o <<"music_pre", Sep>>
                 \o <<"music_pre">> \o DuckFilterText(segs) \o <<"music", Sep>>
            ELSE <<>>
        ambience ==
            IF in.ambience
            THEN <<IF in.music THEN "2:a" ELSE "1:a">> \o params.ambience
                 \o <<"ambience", Sep>>
            ELSE <<>>
        mixInputs ==
            <<"0:a">> \o (IF in.music THEN <<"music">> ELSE <<>>)
                      \o (IF in.ambience THEN <<"ambience">> ELSE <<>>)
    IN music \o ambience \o mixInputs \o <<AmixText(Len(mixInputs)), "mix">>

\* Lines 226 and 233: the filters recorded in the manifest.
RecordedFilters(in) ==
    (IF in.music THEN <<"music_gain", "adaptive_ducking">> ELSE <<>>)
    \o (IF in.ambience THEN <<"ambience_gain">> ELSE <<>>)

Threw(error) == [kind |-> "threw", error |-> error]

\* The mutant of GraphAccepted: the result of the validation is ignored.
GraphAcceptedAlways(v) == TRUE

\* Line 245: validation.valid
GraphAccepted(v) == v.valid

\* Lines 198-202, no music and no ambience: the dialogue is copied to outWav
\* and loudnormTwoPass is called.  fs.copyFileSync throws on a path that is
\* undefined.
MixDialogueOnly ==
    /\ mpc = "start"
    /\ ~optionsInputs.music /\ ~optionsInputs.ambience
    /\ mixManifest' = NewManifest(optionsInputs)
    /\ IF optionsInputs.dialogue
       THEN /\ outWav' = "copy"
            /\ lpc' = "pass1"
            /\ target' = [I |-> TargetLufs, TP |-> TruePeakDb, LRA |-> DefaultLra]
            /\ mpc' = "normalize"
            /\ UNCHANGED mixResult
       ELSE /\ mixResult' = Threw("copy")
            /\ mpc' = "failed"
            /\ UNCHANGED <<outWav, lpc, target>>
    /\ UNCHANGED <<optionsInputs, mixParams, calls, filterGraph, mixValidation,
                   savedManifest>>
    /\ UNCHANGED <<variant, measured, pass2Args, outFinal>>
    /\ UNCHANGED <<exportVars, duckVars, graphVars, timelineVars, concatVars,
                   retryVars>>

\* Lines 209-213: analyzeRMSEnvelope(inputs.dialogue, 0.1) is issued whatever
\* inputs.dialogue is; the engine fails on a path it cannot open, and may
\* fail on any other.  On success the duck curve and filter are derived.
MixAnalyze ==
    /\ mpc = "start"
    /\ optionsInputs.music \/ optionsInputs.ambience
    /\ mixManifest' = NewManifest(optionsInputs)
    /\ calls' = Append(calls, "astats")
    /\ \E outcome \in (IF optionsInputs.dialogue THEN EngineOutcomes ELSE {"failed"}) :
         IF outcome = "ok"
         THEN /\ \E levels \in SeqsUpTo(MixRmsLevels, MaxEnv) :
                   env' = [k \in 1..Len(levels) |->
                              [t |-> (k - 1) * MixHop, rmsDb |-> levels[k]]]
              /\ duckCurve' = buildDuckCurve(env')
              /\ duckFilter' = duckToVolumeEnables(duckCurve', MixHop)
              /\ mpc' = "build"
              /\ UNCHANGED mixResult
         ELSE /\ mixResult' = Threw("engine")
              /\ mpc' = "failed"
              /\ UNCHANGED <<env, duckCurve, duckFilter>>
    /\ UNCHANGED <<hop, dpc>>
    /\ UNCHANGED <<optionsInputs, mixParams, filterGraph, mixValidation, outWav,
                   savedManifest>>
    /\ UNCHANGED <<loudnormVars, exportVars, graphVars, timelineVars, concatVars,
                   retryVars>>

\* Lines 217-241.
MixBuildGraph ==
    /\ mpc = "build"
    /\ filterGraph' = BuildFilterGraph(optionsInputs, mixParams, duckFilter)
    /\ mixManifest' =
          [mixManifest EXCEPT !.filters = @ \o RecordedFilters(optionsInputs)]
    /\ mpc' = "validate"
    /\ UNCHANGED <<optionsInputs, mixParams, calls, mixValidation, outWav,
                   savedManifest, mixResult>>
    /\ UNCHANGED <<loudnormVars, exportVars, duckVars, graphVars, timelineVars,
                   concatVars, retryVars>>

\* Lines 243-254: the graph is validated; an invalid one is thrown with its
\* errors.
MixValidate ==
    /\ mpc = "validate"
    /\ mixValidation' = validateFiltergraph(filterGraph)
    /\ IF GraphAccepted(mixValidation')
       THEN /\ mpc' = "execute"
            /\ UNCHANGED mixResult
       ELSE /\ mixResult' = [kind |-> "threw", error |-> "invalid_filtergraph",
                             errors |-> mixValidation'.errors]
            /\ mpc' = "failed"
    /\ UNCHANGED <<optionsInputs, mixParams, calls, filterGraph, mixManifest,
                   outWav, savedManifest>>
    /\ UNCHANGED <<loudnormVars, exportVars, duckVars, graphVars, timelineVars,
                   concatVars, retryVars>>

\* Lines 256-273: the graph is executed; on success loudnormTwoPass is
\* called on outWav.
MixExecute ==
    /\ mpc = "execute"
    /\ calls' = Append(calls, "mix")
    /\ \E outcome \in EngineOutcomes :
         IF outcome = "ok"
         THEN /\ outWav' = "mixed"
              /\ lpc' = "pass1"
              /\ target' = [I |-> TargetLufs, TP |-> TruePeakDb, LRA |-> DefaultLra]
              /\ mpc' = "normalize"
              /\ UNCHANGED mixResult
         ELSE /\ outWav' \in {outWav, "partial"}
              /\ mixResult' = Threw("engine")
              /\ mpc' = "failed"
              /\ UNCHANGED <<lpc, target>>
    /\ UNCHANGED <<optionsInputs, mixParams, filterGraph, mixValidation,
                   mixManifest, savedManifest>>
    /\ UNCHANGED <<variant, measured, pass2Args, outFinal>>
    /\ UNCHANGED <<exportVars, duckVars, graphVars, timelineVars, concatVars,
                   retryVars>>

\* Lines 202 and 273: loudnormTwoPass threw, and so does mixScene.
MixNormalizeThrew ==
    /\ mpc = "normalize"
    /\ lpc = "threw"
    /\ mixResult' = Threw("engine")
    /\ mpc' = "failed"
    /\ UNCHANGED <<optionsInputs, mixParams, calls, filterGraph, mixValidation,
                   mixManifest, outWav, savedManifest>>
    /\ UNCHANGED <<loudnormVars, exportVars, duckVars, graphVars, timelineVars,
                   concatVars, retryVars>>

\* Lines 204-206: the dialogue-only manifest is saved and returned.
MixDialogueOnlyReturn ==
    /\ mpc = "normalize"
    /\ lpc = "returned"
    /\ ~optionsInputs.music /\ ~optionsInputs.ambience
    /\ mixManifest' = [mixManifest EXCEPT !.filters = Append(@, "dialogue_only")]
    /\ savedManifest' = mixManifest'
    /\ mixResult' = [kind |-> "returned", manifest |-> mixManifest']
    /\ mpc' = "returned"
    /\ UNCHANGED <<optionsInputs, mixParams, calls, filterGraph, mixValidation,
                   outWav>>
    /\ UNCHANGED <<loudnormVars, exportVars, duckVars, graphVars, timelineVars,
                   concatVars, retryVars>>

\* Lines 275-290: the verification pass on outFinal (reject: false) and what
\* it leaves in the manifest.
MixVerify ==
    /\ mpc = "normalize"
    /\ lpc = "returned"
    /\ optionsInputs.music \/ optionsInputs.ambience
    /\ calls' = Append(calls, "verify")
    /\ \E printed \in VerifyPrints :
         mixManifest' =
             [mixManifest EXCEPT
                 !.lufs_i = IF printed = Unparseable
                            THEN Null ELSE <<printed.output_i>>,
                 !.true_peak_db = IF printed = Unparseable
                                  THEN Null ELSE <<printed.output_tp>>]
    /\ mpc' = "save"
    /\ UNCHANGED <<optionsInputs, mixParams, filterGraph, mixValidation, outWav,
                   savedManifest, mixResult>>
    /\ UNCHANGED <<loudnormVars, exportVars, duckVars, graphVars, timelineVars,
                   concatVars, retryVars>>

\* Lines 292-295.
MixSaveAndReturn ==
    /\ mpc = "save"
    /\ savedManifest' = mixManifest
    /\ mixResult' = [kind |-> "returned", manifest |-> mixManifest]
    /\ mpc' = "returned"
    /\ UNCHANGED <<optionsInputs, mixParams, calls, filterGraph, mixValidation,
                   mixManifest, outWav>>
    /\ UNCHANGED <<loudnormVars, exportVars, duckVars, graphVars, timelineVars,
                   concatVars, retryVars>>

InitMix ==
    /\ optionsInputs \in [dialogue : BOOLEAN, music : BOOLEAN, ambience : BOOLEAN]
    /\ mixParams \in [music : GainTexts, ambience : GainTexts]
    /\ mpc = "start"
    /\ calls = <<>>
    /\ filterGraph = <<>>
    /\ mixValidation = NoValidation
    /\ mixManifest = NoManifest
    /\ outWav = Absent
    /\ savedManifest = NoManifest
    /\ mixResult = NoResult
    /\ LoudnormIdle
    /\ ExportIdle
    /\ DuckIdle
    /\ GraphIdle
    /\ TimelineIdle
    /\ ConcatIdle
    /\ RetryIdle

NextMix ==
    \/ MixDialogueOnly
    \/ MixAnalyze
    \/ MixBuildGraph
    \/ MixValidate
    \/ MixExecute
    \/ LoudnormPass1
    \/ LoudnormPass2
    \/ MixNormalizeThrew
    \/ MixDialogueOnlyReturn
    \/ MixVerify
    \/ MixSaveAndReturn

SpecMix == InitMix /\ [][NextMix]_vars

(***************************************************************************)
(* workers/export.js: concatScenesWithCrossfade                            *)
(***************************************************************************)
\* Lines 33-50: the checks made before the engine is called, and the copy
\* of a single scene.
ConcatCheck ==
    /\ cpc = "start"
    /\ IF Len(scenePaths) = 0
       THEN /\ concatResult' = Threw("no_scenes")
            /\ cpc' = "done"
            /\ UNCHANGED outPath
       ELSE IF Len(scenePaths) = 1
       THEN \* fs.copyFileSync(scenePaths[0], outPath)
            IF scenePaths[1].exists
            THEN /\ outPath' = "copy"
                 /\ concatResult' = [kind |-> "returned"]
                 /\ cpc' = "done"
            ELSE /\ concatResult' = Threw("copy")
                 /\ cpc' = "done"
                 /\ UNCHANGED outPath
       ELSE IF \E k \in DOMAIN scenePaths : ~scenePaths[k].exists
       THEN /\ concatResult' = Threw("not_found")
            /\ cpc' = "done"
            /\ UNCHANGED outPath
       ELSE /\ cpc' = "engine"
            /\ UNCHANGED <<outPath, concatResult>>
    /\ UNCHANGED priorOutPath
    /\ UNCHANGED <<exportVars, duckVars, graphVars, timelineVars, mixVars,
                   loudnormVars, retryVars>>

\* Lines 52-100: the engine is run with -y on outPath itself.  A run that
\* fails does so before it has opened outPath or after it has begun to write
\* it; the catch rethrows and touches no file.
ConcatExecute ==
    /\ cpc = "engine"
    /\ \E outcome \in EngineOutcomes :
         IF outcome = "ok"
         THEN /\ outPath' = "episode"
              /\ concatResult' = [kind |-> "returned"]
         ELSE /\ outPath' \in {outPath, "partial"}
              /\ concatResult' = Threw("concat_failed")
    /\ cpc' = "done"
    /\ UNCHANGED priorOutPath
    /\ UNCHANGED <<exportVars, duckVars, graphVars, timelineVars, mixVars,
                   loudnormVars, retryVars>>

InitConcat ==
    /\ scenePaths \in SeqsUpTo(Scenes, MaxScenes)
    /\ crossfadeDuration = 0
    /\ epc = "idle"
    /\ i = 0
    /\ offset = 0
    /\ order = <<>>
    /\ manifest = NoManifest
    /\ cpc = "start"
    /\ priorOutPath \in {Absent, "previous"}
    /\ outPath = priorOutPath
    /\ concatResult = NoResult
    /\ DuckIdle
    /\ GraphIdle
    /\ TimelineIdle
    /\ MixIdle
    /\ LoudnormIdle
    /\ RetryIdle

NextConcat == ConcatCheck \/ ConcatExecute

SpecConcat == InitConcat /\ [][NextConcat]_vars

(***************************************************************************)
(* lib/retry.js: withRetry; workers/whisper-align.js: whisperAPIAlign      *)
(*                                                                         *)
(* The wrapped function is the environment: an attempt returns a value or  *)
(* throws an error.  An error is the record of what withRetry reads from   *)
(* it (status, response.status, its class and isRetryable) with the        *)
(* attempt that threw it, which tells two thrown objects apart.            *)
(***************************************************************************)
\* Lines 34-37: the defaults of the options.
InitialDelayMs == 1000
MaxDelayMs == 10000
RetryableStatuses == {429, 500, 502, 503, 504}
\* Line 36: jitterFactor = 0.2, in tenths.
JitterTenths == 2
\* Line 65: Math.random() * 2 - 1, at its ends and in the middle.
JitterDraws == {-1, 0, 1}

\* whisper-align.js line 129: maxRetries: 3
WhisperMaxRetries == 3

\* The HTTP status the transcription request is answered with; <<>> when
\* fetch itself rejects.
HttpAnswers == {<<200>>, <<400>>, <<429>>, <<503>>, <<>>}

Returned(value) == [kind |-> "returned", value |-> value]

\* new Error(message): no status, no response, not a RetryableError.
PlainError(n) ==
    [attempt |-> n, status |-> <<>>, response |-> <<>>,
     retryableError |-> FALSE, isRetryable |-> FALSE]

\* What a wrapped function of any kind may throw at attempt n: a plain
\* Error, errors carrying status or response.status, and RetryableErrors.
FnErrors(n) ==
    {PlainError(n),
     [PlainError(n) EXCEPT !.status = <<429>>],
     [PlainError(n) EXCEPT !.response = <<503>>],
     [PlainError(n) EXCEPT !.status = <<400>>, !.retryableError = TRUE,
                           !.isRetryable = TRUE],
     [PlainError(n) EXCEPT !.status = <<400>>, !.retryableError = TRUE]}

\* whisper-align.js lines 97-126: the function whisperAPIAlign wraps, for
\* one answer of the API.  A response that is not ok is thrown as
\* new Error(`Whisper API failed: ${response.status} - ${error}`); a
\* rejected fetch throws its own error, which has no status either.
WhisperRequest(answer, n) ==
    IF answer = <<200>>
    THEN Returned("words")
    ELSE Threw(PlainError(n))

\* One call of the wrapped function: what the API answered, if it is the
\* transcription request, and what the function returned or threw.
FnCalls(n) ==
    IF wrapped = "whisperAPIAlign"
    THEN {[kind |-> "attempt", answer |-> answer,
           outcome |-> WhisperRequest(answer, n)] : answer \in HttpAnswers}
    ELSE {[kind |-> "attempt", answer |-> <<>>, outcome |-> o] :
             o \in {Returned("value")} \cup {Threw(e) : e \in FnErrors(n)}}

\* Line 54: err.status || err.response?.status
StatusOf(err) == IF err.status # <<>> THEN err.status ELSE err.response

\* Lines 55-57.
IsRetryable(err) ==
    \/ StatusOf(err) # <<>> /\ StatusOf(err)[1] \in RetryableStatuses
    \/ err.retryableError /\ err.isRetryable

Min(a, b) == IF a < b THEN a ELSE b
Max(a, b) == IF a > b THEN a ELSE b

\* Line 64.
BaseDelay(n) == Min(InitialDelayMs * 2 ^ n, MaxDelayMs)

\* Lines 65-66, for one draw of Math.random.
Delay(n, draw) ==
    Max(0, BaseDelay(n) + (BaseDelay(n) * JitterTenths * draw) \div 10)

\* The mutant of LastAttempt: the loop runs once more
\* (attempt === maxRetries + 1).
LastAttemptOneLater(n, max) == n = max + 1

\* Line 49: attempt === maxRetries
LastAttempt(n, max) == n = max

\* Lines 42-61 and 77: one iteration of the loop up to its return, its
\* throw or its setTimeout.
RetryAttempt ==
    /\ rpc = "attempt"
    /\ \E call \in FnCalls(attempt) :
         IF call.outcome.kind = "returned"
         THEN /\ retryLog' = Append(retryLog, call)
              /\ retryResult' = call.outcome
              /\ rpc' = "returned"
              /\ UNCHANGED lastError
         ELSE /\ lastError' = <<call.outcome.error>>
              /\ IF LastAttempt(attempt, maxRetries)
                 THEN \* break; throw lastError
                      /\ retryLog' = Append(retryLog, call)
                      /\ retryResult' = Threw(lastError'[1])
                      /\ rpc' = "threw"
                 ELSE IF ~IsRetryable(call.outcome.error)
                 THEN \* throw err
                      /\ retryLog' = Append(retryLog, call)
                      /\ retryResult' = Threw(call.outcome.error)
                      /\ rpc' = "threw"
                 ELSE /\ \E draw \in JitterDraws :
                           retryLog' =
                               retryLog
                               \o <<call, [kind |-> "wait",
                                           delay |-> Delay(attempt, draw)]>>
                      /\ rpc' = "wait"
                      /\ UNCHANGED retryResult
    /\ UNCHANGED <<wrapped, maxRetries, attempt>>
    /\ UNCHANGED <<exportVars, duckVars, graphVars, timelineVars, mixVars,
                   loudnormVars, concatVars>>

\* Lines 73 and 42: the timer fires and the loop goes on, attempt++.
RetryWake ==
    /\ rpc = "wait"
    /\ attempt' = attempt + 1
    /\ rpc' = "attempt"
    /\ UNCHANGED <<wrapped, maxRetries, lastError, retryLog, retryResult>>
    /\ UNCHANGED <<exportVars, duckVars, graphVars, timelineVars, mixVars,
                   loudnormVars, concatVars>>

\* withRetry(fn, {maxRetries}) called on a function of any kind, and
\* whisperAPIAlign(audioPath, expectedText).
InitRetry ==
    /\ wrapped \in {"fn", "whisperAPIAlign"}
    /\ maxRetries \in (IF wrapped = "whisperAPIAlign"
                       THEN {WhisperMaxRetries}
                       ELSE 0..MaxRetries)
    /\ attempt = 0
    /\ rpc = "attempt"
    /\ lastError = <<>>
    /\ retryLog = <<>>
    /\ retryResult = NoResult
    /\ ExportIdle
    /\ DuckIdle
    /\ GraphIdle
    /\ TimelineIdle
    /\ MixIdle
    /\ LoudnormIdle
    /\ ConcatIdle

NextRetry == RetryAttempt \/ RetryWake

SpecRetry == InitRetry /\ [][NextRetry]_vars

(***************************************************************************)
(* Claims about validateFiltergraph                                        *)
(***************************************************************************)
\* The definitions of the description under validation.
Definitions == Parts(Normalize(fg))

\* The output label of every definition.
AllOutputLabels ==
    {OutputMatch(Definitions[k])[1] :
        k \in {n \in 1..Len(Definitions) : OutputMatch(Definitions[n]) # <<>>}}

\* The input references that name neither a raw stream nor an output label.
UndefinedReferences ==
    {l \in UNION {Range(InputLabels(Definitions[k])) : k \in 1..Len(Definitions)} :
        ~IsStreamSpecifier(l) /\ l \notin AllOutputLabels}

\* C2: an input reference that is neither a raw stream specifier nor the
\* output label of any definition makes the result invalid, with an
\* 'undefined input label' error naming that reference.
C2_UndefinedInputReported ==
    gpc = "validated" =>
        \A l \in UndefinedReferences :
            /\ graphValidation.valid = FALSE
            /\ <<"undefined_input", l>> \in Range(graphValidation.errors)

\* A graph with a defined and an undefined reference has been validated.
C2_Witness ==
    /\ gpc = "validated"
    /\ "b" \in UndefinedReferences
    /\ "a" \in AllOutputLabels
    /\ \E k \in 1..Len(Definitions) : "a" \in Range(InputLabels(Definitions[k]))
    /\ <<"undefined_input", "b">> \in Range(graphValidation.errors)
    /\ <<"undefined_input", "a">> \notin Range(graphValidation.errors)

\* out depends on in: some definition with output label out has input in.
DependsOn(out, in) ==
    \E k \in 1..Len(Definitions) :
        /\ OutputMatch(Definitions[k]) = <<out>>
        /\ in \in Range(InputLabels(Definitions[k]))

RECURSIVE Closure(_)
\* The labels reachable from the set S along DependsOn, S included.
Closure(S) ==
    LET next == S \cup {l \in Range(LabelMatches(fg)) :
                            \E x \in S : DependsOn(x, l)}
    IN IF next = S THEN S ELSE Closure(next)

\* Some label depends on itself, directly or through other definitions.
HasSelfReference ==
    \E l \in Range(LabelMatches(fg)) :
        \E m \in Range(LabelMatches(fg)) :
            DependsOn(l, m) /\ l \in Closure({m})

CycleErrorCount ==
    Cardinality({k \in 1..Len(graphValidation.errors) :
                    graphValidation.errors[k][1] = "cycle"})

HasDuplicateOutput ==
    \E k \in 1..Len(graphValidation.errors) :
        graphValidation.errors[k][1] = "duplicate_output"

\* C3: a description with a direct or indirect self-reference, with or
\* without duplicate labels, gets exactly one cycle error and valid = false;
\* an acyclic one gets no cycle error.
C3_ExactlyOneCycleError ==
    gpc = "validated" =>
        IF HasSelfReference
        THEN CycleErrorCount = 1 /\ graphValidation.valid = FALSE
        ELSE CycleErrorCount = 0

\* The same, for descriptions in which no output label is defined twice.
C3_HoldsWithoutDuplicates ==
    (gpc = "validated" /\ ~HasDuplicateOutput) =>
        IF HasSelfReference
        THEN CycleErrorCount = 1 /\ graphValidation.valid = FALSE
        ELSE CycleErrorCount = 0

(***************************************************************************)
(* Claims about makePlaybackManifest                                       *)
(***************************************************************************)
RECURSIVE SumDurations(_)
\* d[1] + ... + d[k] of the scenes' measured durations, in ticks.
SumDurations(k) ==
    IF k = 0 THEN 0 ELSE SumDurations(k - 1) + scenePaths[k].duration

\* The offset of scene k (1-based) in exact arithmetic, in ticks: recurrence
\* o[1] = 0, o[k] = o[k-1] + d[k-1] - F in closed form.
ExactOffset(k) == SumDurations(k - 1) - (k - 1) * crossfadeDuration

\* ms (milliseconds) is a multiple of 10^-3 nearest to the exact value t (ticks).
NearestMs(ms, t) == 2 * Abs(ms * TicksPerMs - t) <= TicksPerMs

WholeMs(t) == t % TicksPerMs = 0

ManifestReturned == epc = "done" /\ Len(scenePaths) >= 1

InTypes == {"music_in", "ambience_in", "dialogue_in"}
OutTypes == {"music_out", "ambience_out", "dialogue_out"}

\* Event p of passed is walked before event j.
ProcessedBefore(p, j) ==
    \/ passed[p].at < passed[j].at
    \/ passed[p].at = passed[j].at /\ p < j

\* The cue ids opened by an `in` event before event j and not closed by an
\* `out` event of the same id between that opening and event j.
OpenAt(in, out, j) ==
    {passed[p].cue_id : p \in
        {n \in DOMAIN passed :
            /\ passed[n].type = in
            /\ ProcessedBefore(n, j)
            /\ \A k \in DOMAIN passed :
                  ~ /\ passed[k].type = out
                    /\ passed[k].cue_id = passed[n].cue_id
                    /\ ProcessedBefore(n, k)
                    /\ ProcessedBefore(k, j)}}

HasValidation == tpc \in {"validated", "revalidated", "fixed", "refixed"}

Reported(list, entry) == \E n \in DOMAIN list : list[n] = entry

\* C6: when a music_in / ambience_in of cue B is processed while another cue
\* A of the same class is still open (end = Infinity), the overlap is always
\* reported: for music as an error naming B, its at, A and Infinity, with
\* valid = false; for ambience as a warning naming B, its at and A, and
\* never as an error, so that valid is false only when errors is non-empty.
C6_OpenCueOverlapReported ==
    HasValidation =>
        /\ \A j \in DOMAIN passed :
              passed[j].type = "music_in" =>
                  \A a \in OpenAt("music_in", "music_out", j) \ {passed[j].cue_id} :
                      /\ Reported(validation.errors,
                                  [kind |-> "music_overlap",
                                   cue_id |-> passed[j].cue_id,
                                   at |-> passed[j].at,
                                   active |-> a, until |-> Infinity])
                      /\ validation.valid = FALSE
        /\ \A j \in DOMAIN passed :
              passed[j].type = "ambience_in" =>
                  \A a \in OpenAt("ambience_in", "ambience_out", j) \ {passed[j].cue_id} :
                      Reported(validation.warnings,
                               [kind |-> "ambience_overlap",
                                cue_id |-> passed[j].cue_id,
                                at |-> passed[j].at, active |-> a])
        /\ \A n \in DOMAIN validation.errors :
              validation.errors[n].kind # "ambience_overlap"
        /\ validation.valid = (validation.errors = <<>>)

\* A music_in arrives while another music cue is open; three events, so
\* that the opening is in the list and a third event surrounds the pair.
C6_Witness ==
    /\ tpc = "validated"
    /\ Len(passed) = MaxEvents
    /\ \E j \in DOMAIN passed :
          /\ passed[j].type = "music_in"
          /\ OpenAt("music_in", "music_out", j) \ {passed[j].cue_id} # {}
    /\ validation.valid = FALSE

\* An ambience_in arrives while another ambience cue is open, and the
\* timeline is valid all the same.
C6_WitnessAmbience ==
    /\ tpc = "validated"
    /\ \E j \in DOMAIN passed :
          /\ passed[j].type = "ambience_in"
          /\ OpenAt("ambience_in", "ambience_out", j) \ {passed[j].cue_id} # {}
    /\ validation.valid = TRUE
    /\ validation.warnings # <<>>

HasEvent(type, c) ==
    \E p \in DOMAIN passed : passed[p].type = type /\ passed[p].cue_id = c

OrphanCount(kind, c) ==
    Cardinality({n \in DOMAIN validation.errors :
                    validation.errors[n] = [kind |-> kind, cue_id |-> c]})

OrphanRule(in, out, kind, c) ==
    IF HasEvent(out, c) /\ ~HasEvent(in, c)
    THEN OrphanCount(kind, c) = 1 /\ validation.valid = FALSE
    ELSE OrphanCount(kind, c) = 0

\* C7: for music and for ambience taken apart, a cue id with a *_out and no
\* *_in of the same class anywhere in the list gets exactly one orphan error
\* (and valid = false), however many *_out events carry it; a cue id with a
\* *_in of the same class somewhere in the list gets none.
C7_OneOrphanErrorPerCue ==
    HasValidation =>
        \A c \in {passed[p].cue_id : p \in DOMAIN passed} :
            /\ OrphanRule("music_in", "music_out", "orphan_music_out", c)
            /\ OrphanRule("ambience_in", "ambience_out", "orphan_ambience_out", c)

\* Two music_out events of one cue id that only an ambience_in opens.
C7_Witness ==
    /\ tpc = "validated"
    /\ \E p, j, k \in DOMAIN passed :
          /\ p # j
          /\ passed[p].type = "music_out"
          /\ passed[j].type = "music_out"
          /\ passed[p].cue_id = passed[j].cue_id
          /\ passed[k].type = "ambience_in"
          /\ passed[k].cue_id = passed[p].cue_id
          /\ OrphanCount("orphan_music_out", passed[p].cue_id) = 1

\* Event p of passed is a *_out whose cue id no earlier *_in carries.
NeverOpened(p) ==
    /\ passed[p].type \in OutTypes
    /\ \A j \in DOMAIN passed :
          ~ /\ passed[j].type \in InTypes
            /\ passed[j].cue_id = passed[p].cue_id
            /\ ProcessedBefore(j, p)

KeptIndices == {p \in DOMAIN passed : ~NeverOpened(p)}

\* The place of the kept event p in the stable at-order of the kept events.
Rank(p) == 1 + Cardinality({j \in KeptIndices : ProcessedBefore(j, p)})

IsSortedByAt(list) ==
    \A p, j \in DOMAIN list : p < j => list[p].at <= list[j].at

HasFixed == tpc \in {"fixed", "refixed"}

\* C8: autoFixTimeline drops exactly the *_out events whose cue id no *_in
\* earlier in at-order has opened; every other event is retained unchanged,
\* and the retained events come in stable ascending-at order, which is the
\* input order when the input was sorted.
C8_DropsExactlyUnopenedOuts ==
    HasFixed =>
        /\ Len(fixed) = Cardinality(KeptIndices)
        /\ \A p \in KeptIndices : fixed[Rank(p)] = passed[p]
        /\ IsSortedByAt(passed) =>
              \A p \in KeptIndices :
                  fixed[1 + Cardinality({j \in KeptIndices : j < p})] = passed[p]

\* An unsorted input of which one *_out is dropped and two events of the
\* same at are kept.
C8_Witness ==
    /\ tpc = "fixed"
    /\ ~IsSortedByAt(passed)
    /\ \E p \in DOMAIN passed : NeverOpened(p)
    /\ Len(fixed) = 2
    /\ fixed[1].at = fixed[2].at
    /\ fixed[1] # fixed[2]

\* C9: autoFixTimeline applied to its own result returns the same event
\* sequence.
C9_AutoFixIdempotent ==
    tpc = "refixed" => refixed = fixed

\* The second call has returned, on a result from which the first call had
\* dropped an event and in which two different events share their at.
C9_Witness ==
    /\ tpc = "refixed"
    /\ Len(fixed) < Len(passed)
    /\ \E p, j \in DOMAIN fixed :
          p # j /\ fixed[p].at = fixed[j].at /\ fixed[p] # fixed[j]
    /\ refixed # <<>>

\* C10: neither call modifies the list it is given: after every call the
\* caller's list holds the same events in the same order, the fixed list is
\* another list, and the second validation of the unchanged timeline returns
\* the same valid, errors and warnings as the first.
C10_InputNeverModified ==
    tpc # "idle" =>
        /\ timeline = passed
        /\ tpc \in {"revalidated", "fixed", "refixed"} =>
              /\ revalidation.valid = validation.valid
              /\ revalidation.errors = validation.errors
              /\ revalidation.warnings = validation.warnings

\* Both functions have run on an unsorted list with an error to report, and
\* the fixed list differs from the caller's, which is as it was.
C10_Witness ==
    /\ tpc = "fixed"
    /\ ~IsSortedByAt(passed)
    /\ validation.errors # <<>>
    /\ fixed # timeline
    /\ timeline = passed


(***************************************************************************)
(* Claims about the masking, ordering and crossfade rules.                 *)
(***************************************************************************)
\* The timeline holds one dialogue line: one dialogue_in and at most one
\* dialogue_out.
DialogueIns == {p \in DOMAIN passed : passed[p].type = "dialogue_in"}
DialogueOuts == {p \in DOMAIN passed : passed[p].type = "dialogue_out"}
OneDialogueLine == Cardinality(DialogueIns) = 1 /\ Cardinality(DialogueOuts) <= 1

\* The span of that line: [SpanStart, SpanEnd).
SpanStart == passed[CHOOSE p \in DialogueIns : TRUE].at
SpanEnd ==
    IF DialogueOuts = {} THEN Infinity
    ELSE Finite(passed[CHOOSE p \in DialogueOuts : TRUE].at)

\* The events of the type that carry the cue id of event p.
OutsOf(p, out) ==
    {q \in DOMAIN passed :
        passed[q].type = out /\ passed[q].cue_id = passed[p].cue_id}

\* The time of the *_out of the cue of event p, Infinity if it has none.
OutTime(p, out) ==
    IF OutsOf(p, out) = {} THEN Infinity
    ELSE Finite(passed[CHOOSE q \in OutsOf(p, out) : TRUE].at)

\* The *_in events that sound during the line: at < end, and an *_out time
\* (one at most, so that it is the corresponding one) beyond start.
SoundingDuringLine(in, out) ==
    {p \in DOMAIN passed :
        /\ passed[p].type = in
        /\ Cardinality(OutsOf(p, out)) <= 1
        /\ Less(passed[p].at, SpanEnd)
        /\ Greater(OutTime(p, out), SpanStart)}

MaskingWarned(kind, current) ==
    Reported(validation.warnings,
             [kind |-> kind, line_id |-> "L1", at |-> SpanStart,
              current |-> current])

\* The duck magnitude the spec recommends, and the ambience gain.
RecommendedDuckDb == 6
RecommendedGainDb == -18

\* C11: for the dialogue line and every music_in sounding during it,
\* validateTimeline warns, naming the line, exactly when the magnitude of the
\* music_in's duck_db is below 6 or the duck_db is absent.
C11_MusicMaskingBelow6 ==
    (HasValidation /\ OneDialogueLine) =>
        \A p \in SoundingDuringLine("music_in", "music_out") :
            MaskingWarned("music_masking", passed[p].duck_db)
            <=> (passed[p].duck_db = 0
                 \/ Abs(passed[p].duck_db) < RecommendedDuckDb)

\* What the validator does instead: it warns exactly when the signed duck_db
\* is below 3 or absent.
C11_WarnsBelowSigned3 ==
    (HasValidation /\ OneDialogueLine) =>
        \A p \in SoundingDuringLine("music_in", "music_out") :
            MaskingWarned("music_masking", passed[p].duck_db)
            <=> (passed[p].duck_db = 0 \/ passed[p].duck_db < 3)

\* A music_in ducked by 5 sounds during the line and nothing is warned.
C11_Reached ==
    /\ tpc = "validated"
    /\ OneDialogueLine
    /\ \E p \in SoundingDuringLine("music_in", "music_out") :
          passed[p].duck_db = 5
    /\ validation.warnings = <<>>

\* C12: for the dialogue line and every ambience_in sounding during it,
\* validateTimeline warns exactly when the ambience_in's gain_db is greater
\* than -18 or absent.
C12_AmbienceMaskingAboveMinus18 ==
    (HasValidation /\ OneDialogueLine) =>
        \A p \in SoundingDuringLine("ambience_in", "ambience_out") :
            MaskingWarned("ambience_masking", passed[p].gain_db)
            <=> (passed[p].gain_db = 0
                 \/ passed[p].gain_db > RecommendedGainDb)

\* What the validator does instead: it warns exactly when gain_db is greater
\* than -15 or absent.
C12_WarnsAboveMinus15 ==
    (HasValidation /\ OneDialogueLine) =>
        \A p \in SoundingDuringLine("ambience_in", "ambience_out") :
            MaskingWarned("ambience_masking", passed[p].gain_db)
            <=> (passed[p].gain_db = 0 \/ passed[p].gain_db > -15)

\* An ambience_in at -17 sounds during the line and nothing is warned.
C12_Reached ==
    /\ tpc = "validated"
    /\ OneDialogueLine
    /\ \E p \in SoundingDuringLine("ambience_in", "ambience_out") :
          passed[p].gain_db = -17
    /\ validation.warnings = <<>>

OrderingErrorReported ==
    \E n \in DOMAIN validation.errors :
        validation.errors[n].kind = "out_of_order"

\* C13: when some event's at is smaller than the at of an event that
\* precedes it in the input, validateTimeline reports an ordering error and
\* valid = false; for an input in non-decreasing at order it reports none.
C13_RegressionReported ==
    HasValidation =>
        IF IsSortedByAt(passed)
        THEN ~OrderingErrorReported
        ELSE OrderingErrorReported /\ validation.valid = FALSE

\* What the validator does instead: it never reports an ordering error.
C13_NeverReported == HasValidation => ~OrderingErrorReported

\* An input with a regression is found valid.
C13_Reached ==
    /\ tpc = "validated"
    /\ ~IsSortedByAt(passed)
    /\ validation.valid = TRUE

\* An overlap error of the music_in p against the cue of the music_in q.
OverlapReported(p, q) ==
    \E n \in DOMAIN validation.errors :
        /\ validation.errors[n].kind = "music_overlap"
        /\ validation.errors[n].cue_id = passed[p].cue_id
        /\ validation.errors[n].at = passed[p].at
        /\ validation.errors[n].active = passed[q].cue_id

\* The declared fade of the music_out r, 2 if it declares none.
FadeOf(r) == IF passed[r].fade # 0 THEN passed[r].fade ELSE 2

\* X = passed[p] is a music_in at t, Y = passed[q] another cue opened before
\* it, r the one music_out of Y, at e > t; X and Y are opened once.
CrossfadeCase(p, q, r) ==
    /\ passed[p].type = "music_in"
    /\ passed[q].type = "music_in"
    /\ passed[p].cue_id # passed[q].cue_id
    /\ ProcessedBefore(q, p)
    /\ OutsOf(q, "music_out") = {r}
    /\ passed[r].at > passed[p].at
    /\ \A k \in DOMAIN passed :
          passed[k].type = "music_in" /\ k # p /\ k # q =>
              passed[k].cue_id \notin {passed[p].cue_id, passed[q].cue_id}

\* C20: in that case validateTimeline reports the overlap of X against Y
\* only if t < e - f; a start with e - f <= t < e is a valid crossfade and
\* no overlap error is reported for it.
C20_CrossfadeWindow ==
    HasValidation =>
        \A p, q, r \in DOMAIN passed :
            (CrossfadeCase(p, q, r) /\ OverlapReported(p, q)) =>
                passed[p].at < passed[r].at - FadeOf(r)

\* What the validator does instead: Y's music_out lies ahead in the walk, Y's
\* end is still Infinity, and the overlap is reported whatever the fade.
C20_AlwaysReported ==
    HasValidation =>
        \A p, q, r \in DOMAIN passed :
            CrossfadeCase(p, q, r) => OverlapReported(p, q)

\* A start inside the fade window is reported as an overlap.
C20_Reached ==
    /\ tpc = "validated"
    /\ \E p, q, r \in DOMAIN passed :
          /\ CrossfadeCase(p, q, r)
          /\ passed[p].at >= passed[r].at - FadeOf(r)
          /\ OverlapReported(p, q)


\* C18: makePlaybackManifest called with an empty scene list raises a
\* failure and never returns a manifest.
C18_EmptyListFails ==
    (epc # "idle" /\ scenePaths = <<>>) => (epc # "done" /\ manifest = NoManifest)

\* What makePlaybackManifest does instead: the loop body never runs and the
\* manifest with an empty order and total 0 is returned.
C18_EmptyManifestReturned ==
    (epc \notin {"idle", "loop"} /\ scenePaths = <<>>) =>
        /\ epc = "done"
        /\ manifest.kind = "manifest"
        /\ manifest.order = <<>>
        /\ manifest.total = 0

\* The call on the empty list has returned.
C18_Reached == epc = "done" /\ scenePaths = <<>>


(***************************************************************************)
(* Claims about loudnormTwoPass and mixScene.                              *)
(***************************************************************************)
\* Pass 1 found the input at the target already.
AlreadyAtTarget ==
    /\ measured \in Pass1Json
    /\ measured.input_i = target.I
    /\ measured.target_offset = 0

\* Pass 1 produced no parseable measurement.
MeasurementUnavailable == measured = Unparseable

\* C16: the caller can tell "pass 1 produced no parseable measurement" from
\* "input already at target".  loudnormTwoPass returns no value: what its
\* caller sees is whether it returned or threw, and the file at outPath.  A
\* call on an input already at target returns with the normalized file
\* written (C16_AtTargetReturns), so a call whose measurement is unavailable
\* must not do the same.
C16_UnavailableNotAsAtTarget ==
    MeasurementUnavailable => ~(lpc = "returned" /\ outFinal = "normalized")

\* A call on an input already at target has returned, the normalized file
\* written.
C16_AtTargetReturns ==
    AlreadyAtTarget /\ lpc = "returned" /\ outFinal = "normalized"

\* lib/mix.js: no measurement, pass 2 run with zeros and the call returned
\* as for an input at target.
C16_Reached ==
    /\ variant = "lib/mix.js"
    /\ MeasurementUnavailable
    /\ pass2Args.measured_I = <<0>>
    /\ pass2Args.offset = <<0>>
    /\ lpc = "returned"
    /\ outFinal = "normalized"

\* What loudnormTwoPass does with an unavailable measurement: pass 2 is
\* issued all the same, with '0' for every value in lib/mix.js and with the
\* text of undefined in workers/mix.js.
C16_Pass2IssuedAnyway ==
    (MeasurementUnavailable /\ lpc \in {"returned", "threw"}) =>
        /\ calls[Len(calls)] = "loudnorm_pass2"
        /\ pass2Args.measured_I = (IF variant = "lib/mix.js" THEN <<0>> ELSE <<>>)
        /\ pass2Args.offset = (IF variant = "lib/mix.js" THEN <<0>> ELSE <<>>)


Issued(call) == \E n \in DOMAIN calls : calls[n] = call

GraphRejected == mixValidation # NoValidation /\ ~mixValidation.valid

\* C14: when validateFiltergraph reports an error for the graph mixScene has
\* built, mixScene never issues the graph-execution call: it has failed with
\* an error that carries all the validation errors, the graph is the one it
\* built (no repair), and there is no mix output and no manifest.
C14_InvalidGraphNeverExecuted ==
    GraphRejected =>
        /\ mpc = "failed"
        /\ mixResult = [kind |-> "threw", error |-> "invalid_filtergraph",
                        errors |-> mixValidation.errors]
        /\ ~Issued("mix")
        /\ ~Issued("loudnorm_pass1") /\ ~Issued("loudnorm_pass2")
        /\ ~Issued("verify")
        /\ filterGraph = BuildFilterGraph(optionsInputs, mixParams, duckFilter)
        /\ outWav = Absent
        /\ outFinal = Absent
        /\ savedManifest = NoManifest

\* A graph with two undefined input labels has been rejected.
C14_Witness ==
    /\ GraphRejected
    /\ Len(mixValidation.errors) = 2
    /\ mpc = "failed"
    /\ calls = <<"astats">>

\* C15: every successful mixScene call, the dialogue-only one included,
\* returns a manifest whose final LUFS and true peak are set, measured by a
\* verification pass that ran last, on the normalized output.
C15_ReturnedManifestIsMeasured ==
    mixResult.kind = "returned" =>
        /\ mixResult.manifest.lufs_i # Null
        /\ mixResult.manifest.true_peak_db # Null
        /\ calls # <<>> /\ calls[Len(calls)] = "verify"
        /\ outFinal = "normalized"

\* What mixScene does instead: the dialogue-only path returns without a
\* verification pass, lufs_i and true_peak_db null; the full path runs the
\* pass and returns null when its output is not parsed.
C15_DialogueOnlyUnmeasured ==
    mixResult.kind = "returned" =>
        IF ~optionsInputs.music /\ ~optionsInputs.ambience
        THEN /\ ~Issued("verify")
             /\ mixResult.manifest.lufs_i = Null
             /\ mixResult.manifest.true_peak_db = Null
             /\ mixResult.manifest.filters = <<"dialogue_only">>
        ELSE /\ calls[Len(calls)] = "verify"
             /\ outFinal = "normalized"

\* A dialogue-only call has returned.
C15_Reached ==
    /\ mixResult.kind = "returned"
    /\ optionsInputs = [dialogue |-> TRUE, music |-> FALSE, ambience |-> FALSE]
    /\ mixResult.manifest.lufs_i = Null

\* C19: a mix request without the dialogue input aborts before any call to
\* the external engine is issued, whether or not music or ambience are given.
C19_NoDialogueNoEngineCall ==
    (mpc # "idle" /\ ~optionsInputs.dialogue) =>
        /\ calls = <<>>
        /\ mpc \in {"start", "failed"}

\* What mixScene does instead: nothing tests inputs.dialogue.  Without music
\* and ambience the copy throws before any call; with either, the envelope
\* analysis is issued on the missing path and its failure ends the call.
C19_AnalysisIssuedWithoutDialogue ==
    (mpc \notin {"idle", "start"} /\ ~optionsInputs.dialogue) =>
        /\ mpc = "failed"
        /\ calls = (IF optionsInputs.music \/ optionsInputs.ambience
                    THEN <<"astats">> ELSE <<>>)

\* The envelope analysis has been issued for a request without dialogue.
C19_Reached ==
    /\ ~optionsInputs.dialogue
    /\ optionsInputs.music
    /\ calls = <<"astats">>


(***************************************************************************)
(* Claims about concatScenesWithCrossfade.                                 *)
(***************************************************************************)
ConcatFailed == cpc = "done" /\ concatResult.kind = "threw"

\* C17: whenever concatScenesWithCrossfade fails, the output path holds no
\* partial or new content afterwards: what was there before is there still.
C17_FailedConcatLeavesOutput ==
    ConcatFailed => outPath = priorOutPath

\* What holds instead: the failures raised before the engine runs (no
\* scenes, a missing scene file) leave the output as it was; a failure of
\* the engine leaves whatever the engine has written.
C17_OnlyEarlyFailuresAtomic ==
    (ConcatFailed /\ concatResult.error # "concat_failed") =>
        outPath = priorOutPath

\* The engine failed after it began to write over a previous output.
C17_Reached ==
    /\ ConcatFailed
    /\ priorOutPath = "previous"
    /\ outPath = "partial"

(***************************************************************************)
(* Claims about the tracks an overlap is evaluated against.                *)
(***************************************************************************)
\* An overlap entry in which the starting track and the active one agree.
SelfOverlap(list) ==
    \E n \in DOMAIN list :
        /\ list[n].kind \in {"music_overlap", "ambience_overlap"}
        /\ list[n].active = list[n].cue_id

\* C21: a *_in for cue X never produces an overlap error or warning in
\* which the still-active track is X itself.
C21_NoSelfOverlap ==
    HasValidation =>
        /\ ~SelfOverlap(validation.errors)
        /\ ~SelfOverlap(validation.warnings)

\* What the validator does instead: the walk over the active tracks does
\* not leave out the cue of the event, so a *_in of a cue that is still
\* open is reported against itself.
C21_ReopenedCueReported ==
    HasValidation =>
        /\ \A j \in DOMAIN passed :
              (/\ passed[j].type = "music_in"
               /\ passed[j].cue_id \in OpenAt("music_in", "music_out", j)) =>
                  Reported(validation.errors,
                           [kind |-> "music_overlap",
                            cue_id |-> passed[j].cue_id, at |-> passed[j].at,
                            active |-> passed[j].cue_id, until |-> Infinity])
        /\ \A j \in DOMAIN passed :
              (/\ passed[j].type = "ambience_in"
               /\ passed[j].cue_id \in OpenAt("ambience_in", "ambience_out", j)) =>
                  Reported(validation.warnings,
                           [kind |-> "ambience_overlap",
                            cue_id |-> passed[j].cue_id, at |-> passed[j].at,
                            active |-> passed[j].cue_id])

\* Two music_in of the one cue and nothing else of its class: the second
\* is reported as overlapping the first.
C21_Reached ==
    /\ tpc = "validated"
    /\ \E j \in DOMAIN passed :
          /\ passed[j].type = "music_in"
          /\ OpenAt("music_in", "music_out", j) = {passed[j].cue_id}
    /\ SelfOverlap(validation.errors)
    /\ validation.valid = FALSE

(***************************************************************************)
(* Claims about definition order, accumulation and empty chains in         *)
(* validateFiltergraph.                                                    *)
(***************************************************************************)
\* Definition k outputs the label l.
Outputs(k, l) == OutputMatch(Definitions[k]) = <<l>>

\* Input l of definition k is a forward reference: not a raw stream, output
\* by a later definition and by no earlier one.
ForwardReference(k, l) ==
    /\ l \in Range(InputLabels(Definitions[k]))
    /\ ~IsStreamSpecifier(l)
    /\ \E j \in (k + 1)..Len(Definitions) : Outputs(j, l)
    /\ \A j \in 1..(k - 1) : ~Outputs(j, l)

UndefinedInputReported(l) ==
    <<"undefined_input", l>> \in Range(graphValidation.errors)

\* C22: an input reference that is not a raw stream specifier and names a
\* label defined only by a later definition is reported as an 'undefined
\* input label' error, with valid = false.
C22_ForwardReferenceReported ==
    gpc = "validated" =>
        \A k \in 1..Len(Definitions) :
            \A l \in Range(InputLabels(Definitions[k])) :
                ForwardReference(k, l) =>
                    /\ UndefinedInputReported(l)
                    /\ graphValidation.valid = FALSE

\* What the validator does instead: the output labels of all definitions
\* are collected before any input is looked up, so a label output anywhere
\* in the description is never reported as undefined.
C22_DefinedAnywhereAccepted ==
    gpc = "validated" =>
        \A l \in AllOutputLabels : ~UndefinedInputReported(l)

\* A description whose first definition reads the label the second one
\* outputs is found valid.
C22_Reached ==
    /\ gpc = "validated"
    /\ Len(Definitions) = 2
    /\ ForwardReference(1, "b")
    /\ Outputs(1, "a")
    /\ graphValidation.valid = TRUE

\* Some label is the output of two definitions.
DuplicateRuleViolated ==
    \E j, k \in 1..Len(Definitions) :
        j < k /\ OutputMatch(Definitions[j]) # <<>>
              /\ OutputMatch(Definitions[j]) = OutputMatch(Definitions[k])

UndefinedRuleViolated == UndefinedReferences # {}

HasUndefinedInput ==
    \E k \in 1..Len(graphValidation.errors) :
        graphValidation.errors[k][1] = "undefined_input"

\* The rules a description violates: no output label defined twice, every
\* input a raw stream or an output label, no label reachable from itself.
ViolatedGraphRules ==
    (IF DuplicateRuleViolated THEN {"duplicate_output"} ELSE {})
    \cup (IF UndefinedRuleViolated THEN {"undefined_input"} ELSE {})
    \cup (IF HasSelfReference THEN {"cycle"} ELSE {})

\* The rules the errors of the result have an entry for.
ReportedGraphRules ==
    {graphValidation.errors[k][1] : k \in 1..Len(graphValidation.errors)}

\* C23: for a description that violates several rules at once, the errors
\* of validateFiltergraph contain an entry for every violated rule (a
\* duplicate output label always yields its error, every undefined
\* reference is named).
C23_EveryViolatedRuleReported ==
    (gpc = "validated" /\ Cardinality(ViolatedGraphRules) >= 2) =>
        /\ ViolatedGraphRules \subseteq ReportedGraphRules
        /\ \A l \in UndefinedReferences : UndefinedInputReported(l)
        /\ graphValidation.valid = FALSE

\* What holds: the duplicate and the undefined rule are reported whenever
\* they are violated, alone or together, and with or without a cycle.
C23_DuplicateAndUndefinedAccumulate ==
    gpc = "validated" =>
        /\ DuplicateRuleViolated = HasDuplicateOutput
        /\ UndefinedRuleViolated = HasUndefinedInput
        /\ \A l \in UndefinedReferences : UndefinedInputReported(l)

\* A duplicate output label and an undefined reference are both reported,
\* and the loop that the duplicate definition overwrote is not.
C23_Reached ==
    /\ gpc = "validated"
    /\ ViolatedGraphRules = {"duplicate_output", "undefined_input", "cycle"}
    /\ ReportedGraphRules = {"duplicate_output", "undefined_input"}

\* The hard rules of a timeline: a music_in while another music cue is
\* open (overlap), an *_out of a cue no *_in of its class names (orphan).
OverlapRuleViolated ==
    \E j \in DOMAIN passed :
        /\ passed[j].type = "music_in"
        /\ OpenAt("music_in", "music_out", j) \ {passed[j].cue_id} # {}

OrphanRuleViolated ==
    \E c \in {"A", "B"} :
        \/ HasEvent("music_out", c) /\ ~HasEvent("music_in", c)
        \/ HasEvent("ambience_out", c) /\ ~HasEvent("ambience_in", c)

HasErrorOfKind(kinds) ==
    \E n \in DOMAIN validation.errors : validation.errors[n].kind \in kinds

\* What holds for validateTimeline: overlap and orphan errors accumulate.
C23_TimelineHardRulesAccumulate ==
    HasValidation =>
        /\ OverlapRuleViolated => HasErrorOfKind({"music_overlap"})
        /\ OrphanRuleViolated =>
               HasErrorOfKind({"orphan_music_out", "orphan_ambience_out"})

\* A timeline with an overlap and an orphan has both reported.
C23_TimelineReached ==
    /\ tpc = "validated"
    /\ OverlapRuleViolated
    /\ OrphanRuleViolated
    /\ HasErrorOfKind({"music_overlap"})
    /\ HasErrorOfKind({"orphan_music_out", "orphan_ambience_out"})

(***************************************************************************)
(* Claims about the two passes of loudnormTwoPass.                         *)
(***************************************************************************)
\* The positions of the requests of one kind among the requests issued.
CallsOf(request) == {n \in DOMAIN calls : calls[n] = request}

LoudnormFinished == lpc \in {"returned", "threw"}

\* The five measured parameters of the pass-2 request.
MeasuredParameters ==
    {"measured_I", "measured_TP", "measured_LRA", "measured_thresh", "offset"}

\* A parameter of the pass-2 request holds a value, not the text of
\* undefined.
IsDefined(parameter) == pass2Args[parameter] # <<>>

\* Pass 2 is never issued before pass 1 has completed, and once the
\* invocation is over it has been issued exactly once, carrying the
\* original targets.
C24_Pass2OnceAfterPass1 ==
    /\ \A n \in CallsOf("loudnorm_pass2") :
          /\ lpc \notin {"pass1", "pass2"}
          /\ \E k \in CallsOf("loudnorm_pass1") : k < n
    /\ LoudnormFinished =>
          /\ Cardinality(CallsOf("loudnorm_pass2")) = 1
          /\ Cardinality(CallsOf("loudnorm_pass1")) = 1
          /\ pass2Args.I = target.I
          /\ pass2Args.TP = target.TP
          /\ pass2Args.LRA = target.LRA

\* C24: pass 2 is issued exactly once per invocation and only after pass 1
\* has completed; it is still issued when pass 1 yields no parseable
\* measurement, each of the five measured parameters then filled with a
\* defined default; and it always carries the original targets I, TP, LRA.
C24_Pass2WithDefinedDefaults ==
    /\ C24_Pass2OnceAfterPass1
    /\ (LoudnormFinished /\ MeasurementUnavailable) =>
          \A parameter \in MeasuredParameters : IsDefined(parameter)

\* What holds: lib/mix.js fills the five parameters with '0', and
\* workers/mix.js leaves every one of them undefined.
C24_DefaultsOnlyInLib ==
    (LoudnormFinished /\ MeasurementUnavailable) =>
        \A parameter \in MeasuredParameters :
            pass2Args[parameter] =
                (IF variant = "lib/mix.js" THEN <<0>> ELSE <<>>)

\* workers/mix.js: no measurement, and pass 2 issued once, after pass 1,
\* with the targets and five undefined parameters.
C24_Reached ==
    /\ variant = "workers/mix.js"
    /\ MeasurementUnavailable
    /\ LoudnormFinished
    /\ calls = <<"loudnorm_pass1", "loudnorm_pass2">>
    /\ pass2Args.I = target.I /\ pass2Args.LRA = 7
    /\ \A parameter \in MeasuredParameters : ~IsDefined(parameter)

(***************************************************************************)
(* Claims about the graph mixScene builds.                                 *)
(***************************************************************************)
\* The definitions of the graph mixScene has built.
MixDefinitions == Parts(Normalize(filterGraph))

\* The graph has been built and validated.
MixGraphValidated == mixValidation # NoValidation

\* The gains of the roles that are present are numbers.
NumericGains ==
    /\ optionsInputs.music => mixParams.music = <<FilterText>>
    /\ optionsInputs.ambience => mixParams.ambience = <<FilterText>>

\* Every input of every definition is a raw stream or the output of an
\* earlier definition.
MixInputsDefinedEarlier ==
    \A k \in 1..Len(MixDefinitions) :
        \A l \in Range(InputLabels(MixDefinitions[k])) :
            \/ IsStreamSpecifier(l)
            \/ \E j \in 1..(k - 1) : OutputMatch(MixDefinitions[j]) = <<l>>

\* Every definition has an output label, and no two have the same.
MixOutputsUnique ==
    \A j, k \in 1..Len(MixDefinitions) :
        /\ OutputMatch(MixDefinitions[k]) # <<>>
        /\ j # k => OutputMatch(MixDefinitions[j]) # OutputMatch(MixDefinitions[k])

\* The labels definition k reads, directly.
MixReads(out) ==
    UNION {Range(InputLabels(MixDefinitions[k])) :
              k \in {n \in 1..Len(MixDefinitions) :
                        OutputMatch(MixDefinitions[n]) = <<out>>}}

RECURSIVE MixReachable(_)
\* The labels reachable from the labels of S along MixReads.
MixReachable(S) ==
    LET next == S \cup UNION {MixReads(l) : l \in S}
    IN IF next = S THEN S ELSE MixReachable(next)

\* No output label is reachable from itself.
MixAcyclic ==
    \A k \in 1..Len(MixDefinitions) :
        LET out == OutputMatch(MixDefinitions[k])[1]
        IN out \notin MixReachable(MixReads(out))

\* The roles present, in the order dialogue, music, ambience, by the label
\* each one reaches the final mix node under.
PresentRoles ==
    <<"0:a">> \o (IF optionsInputs.music THEN <<"music">> ELSE <<>>)
              \o (IF optionsInputs.ambience THEN <<"ambience">> ELSE <<>>)

\* The final definition reads the present roles in order, and its amix
\* filter is written for as many inputs.
MixFinalNode ==
    LET final == MixDefinitions[Len(MixDefinitions)] IN
    /\ InputLabels(final) = PresentRoles
    /\ OutputMatch(final) = <<"mix">>
    /\ SelectSeq(final, LAMBDA tok : ~IsLabel(tok)) =
          <<CASE Len(PresentRoles) = 2 -> "amix=inputs=2"
              [] Len(PresentRoles) = 3 -> "amix=inputs=3">>

\* C25: for every combination of music and/or ambience with dialogue and
\* every duck curve, the graph mixScene builds has every non-raw input
\* named by an earlier definition's output, unique output labels and no
\* loop, its final node reads [dialogue, music?, ambience?] with an input
\* count equal to the number of present roles, and validateFiltergraph
\* finds it valid.
C25_BuiltGraphKeepsInvariants ==
    (MixGraphValidated /\ NumericGains) =>
        /\ optionsInputs.dialogue
        /\ optionsInputs.music \/ optionsInputs.ambience
        /\ MixInputsDefinedEarlier
        /\ MixOutputsUnique
        /\ MixAcyclic
        /\ MixFinalNode
        /\ mixValidation.valid = TRUE
        /\ mixValidation.errors = <<>>

\* Music alone with dialogue, and a duck curve with silent and loud samples.
C25_Witness ==
    /\ MixGraphValidated /\ NumericGains
    /\ optionsInputs.music /\ ~optionsInputs.ambience
    /\ Len(duckCurve) = MaxEnv
    /\ \E k \in DOMAIN duckCurve : duckCurve[k].duckDb = 0
    /\ Len(duckFilter) = 2
    /\ Len(MixDefinitions) = 3
    /\ mpc = "execute"

\* Ambience alone: it is read from the second input of the command.
C25_WitnessAmbienceOnly ==
    /\ MixGraphValidated /\ NumericGains
    /\ ~optionsInputs.music /\ optionsInputs.ambience
    /\ filterGraph = <<"1:a", FilterText, "ambience", Sep,
                       "0:a", "ambience", "amix=inputs=2", "mix">>
    /\ mixValidation.valid

\* All three roles and an empty duck curve.
C25_WitnessEmptyCurve ==
    /\ MixGraphValidated /\ NumericGains
    /\ optionsInputs.music /\ optionsInputs.ambience
    /\ duckCurve = <<>>
    /\ duckFilter = Anull
    /\ mixValidation.valid

(***************************************************************************)
(* Claims about withRetry and whisperAPIAlign.                             *)
(***************************************************************************)
RetryFinished == rpc \in {"returned", "threw"}

\* The positions of the attempts and of the waits in the log.
AttemptsMade == {n \in DOMAIN retryLog : retryLog[n].kind = "attempt"}
WaitsMade == {n \in DOMAIN retryLog : retryLog[n].kind = "wait"}

Succeeded(n) == retryLog[n].outcome.kind = "returned"

\* Every attempt made has failed with a failure withRetry retries.
AllRetryableFailures ==
    \A n \in AttemptsMade :
        ~Succeeded(n) /\ IsRetryable(retryLog[n].outcome.error)

\* C26: withRetry invokes the wrapped function at most maxRetries + 1
\* times; it returns the result of the first successful attempt without a
\* further attempt; it waits only between two consecutive attempts, never
\* after the last; and when every attempt fails with a retryable failure it
\* re-raises the failure of the last attempt.
C26_BoundedAttemptsLastFailure ==
    /\ Cardinality(AttemptsMade) <= maxRetries + 1
    /\ \A n \in AttemptsMade :
          Succeeded(n) =>
              /\ n = Len(retryLog)
              /\ rpc = "returned"
              /\ retryResult = retryLog[n].outcome
    /\ rpc = "returned" => Succeeded(Len(retryLog))
    /\ \A n \in WaitsMade :
          /\ n > 1 /\ (n - 1) \in AttemptsMade /\ ~Succeeded(n - 1)
          /\ IF n = Len(retryLog)
             THEN ~RetryFinished
             ELSE (n + 1) \in AttemptsMade
    /\ RetryFinished => Len(retryLog) \in AttemptsMade
    /\ (rpc = "threw" /\ AllRetryableFailures) =>
          /\ Cardinality(AttemptsMade) = maxRetries + 1
          /\ retryResult = retryLog[Len(retryLog)].outcome
          /\ retryResult.error.attempt = maxRetries

\* Three attempts have failed with retryable failures, with a wait after
\* the first and the second only, and the third failure is re-raised.
C26_Witness ==
    /\ wrapped = "fn"
    /\ maxRetries = 2
    /\ rpc = "threw"
    /\ AllRetryableFailures
    /\ Cardinality(AttemptsMade) = 3
    /\ WaitsMade = {2, 4}
    /\ retryLog[4].delay > retryLog[2].delay
    /\ retryResult.error.attempt = 2

\* A second attempt succeeds and its value is returned.
C26_WitnessReturned ==
    /\ wrapped = "fn"
    /\ maxRetries = 2
    /\ rpc = "returned"
    /\ Len(retryLog) = 3
    /\ retryResult = Returned("value")

\* The HTTP statuses the call is configured to retry on.
ConfiguredRetryable == {429, 500, 502, 503, 504}

\* Attempt n of the log was answered with one of those statuses.
AnsweredRetryable(n) ==
    /\ retryLog[n].answer # <<>>
    /\ retryLog[n].answer[1] \in ConfiguredRetryable

\* C27: when the transcription request receives a response with status
\* 429, 500, 502, 503 or 504, whisperAPIAlign makes a further attempt (up
\* to 3 retries) instead of failing after the first.
C27_RetryableStatusRetried ==
    (wrapped = "whisperAPIAlign" /\ RetryFinished) =>
        \A n \in AttemptsMade :
            (AnsweredRetryable(n) /\ Cardinality({k \in AttemptsMade : k <= n}) <= 3)
                => \E k \in AttemptsMade : k > n

\* What whisperAPIAlign does instead: the error it throws for a response
\* that is not ok carries no status, withRetry finds it not retryable, and
\* the call is over after one attempt whatever was answered.
C27_SingleAttempt ==
    (wrapped = "whisperAPIAlign" /\ RetryFinished) =>
        /\ Len(retryLog) = 1
        /\ WaitsMade = {}

\* A 429 has been answered, and the call has failed after that one attempt.
C27_Reached ==
    /\ wrapped = "whisperAPIAlign"
    /\ rpc = "threw"
    /\ retryLog[1].answer = <<429>>
    /\ Len(retryLog) = 1
    /\ retryResult = Threw(PlainError(0))

(***************************************************************************)
(* Claims about the validation of the fixed timeline.                      *)
(***************************************************************************)
HasFixedValidation == tpc = "fixed_validated"

\* An orphan error among the errors of validateTimeline(fixedTimeline).
OrphanErrorAfterFix ==
    \E n \in DOMAIN fixedValidation.errors :
        fixedValidation.errors[n].kind
            \in {"orphan_music_out", "orphan_ambience_out"}

\* Some cue id is carried by events of the music and of the ambience class.
CueIdSharedByClasses ==
    \E p, j \in DOMAIN passed :
        /\ passed[p].type \in {"music_in", "music_out"}
        /\ passed[j].type \in {"ambience_in", "ambience_out"}
        /\ passed[p].cue_id = passed[j].cue_id

\* C28: for every timeline t, validateTimeline applied to
\* autoFixTimeline(t) reports no orphan error, also when the same cue id is
\* used by events of different classes.
C28_NoOrphanAfterFix ==
    HasFixedValidation => ~OrphanErrorAfterFix

\* What holds: no orphan error is left when no cue id is shared by the two
\* classes.
C28_NoOrphanUnlessShared ==
    (HasFixedValidation /\ ~CueIdSharedByClasses) => ~OrphanErrorAfterFix

\* A music_in and an ambience_out of the one cue id: the ambience_out is
\* kept by the fix and reported as an orphan by the validation.
C28_Reached ==
    /\ HasFixedValidation
    /\ Len(passed) = 2
    /\ passed[1].type = "music_in"
    /\ passed[2].type = "ambience_out"
    /\ passed[1].cue_id = passed[2].cue_id
    /\ fixed = passed
    /\ OrphanErrorAfterFix
    /\ fixedValidation.valid = FALSE

(***************************************************************************)
(* Claims about empty chains in validateFiltergraph.                       *)
(***************************************************************************)
\* The chains between the separators of the description, white space
\* removed, the empty ones included.
Chains == Split(Normalize(fg))

\* Some separator of the description has nothing on one of its sides.
HasEmptyChain ==
    /\ Len(Chains) > 1
    /\ \E k \in 1..Len(Chains) : Chains[k] = <<>>

EmptyChainWarned == <<"empty_chain">> \in Range(graphValidation.warnings)

\* C29: a description with an empty chain, as consecutive or trailing
\* separators produce, makes validateFiltergraph return an 'empty filter
\* chain' warning.
C29_EmptyChainWarned ==
    (gpc = "validated" /\ HasEmptyChain) => EmptyChainWarned

\* What the validator does instead: the empty chains are filtered out
\* before the check looks for them, and the warning is never returned.
C29_NeverWarned ==
    gpc = "validated" => ~EmptyChainWarned

\* Two definitions with two separators between them, and no warning.
C29_Reached ==
    /\ gpc = "validated"
    /\ fg = <<FilterText, "a", Sep, Sep, "a">>
    /\ HasEmptyChain
    /\ graphValidation.warnings = <<>>

====
